---- MODULE Spec2Model ----
(***************************************************************************)
(* apiweaver: the router package's middleware pipeline (router.New, the    *)
(* option mutators, the CORS / timeout / logging stages), modelled from    *)
(* router/options.go and router/std.go, and the probe orchestration of the *)
(* info package (InfoHandler.runChecks) with the probe package's adapters. *)
(*                                                                         *)
(* Strings are TLC strings (Len is the byte length, \o concatenates);      *)
(* header names are tuples of one-character strings so that                *)
(* http.CanonicalHeaderKey can be computed character by character.         *)
(***************************************************************************)
EXTENDS Integers, Sequences, FiniteSets, TLC

VARIABLES
    router,   \* outcome of router.New and of the requests served by the mux
    cors,     \* a corsMiddleware stage under test and the exchanges it served
    tmo,      \* one request inside the timeout stage (handler goroutine vs deadline)
    logst,    \* a loggingMiddleware stage under test and the records it emitted
    info,     \* an InfoHandler and the probe batches (runChecks) it ran
    probe,    \* a probe built by a probe.New*Probe adapter and its invocations
    alias     \* a pipeline built from slices the caller still holds and writes

vars == <<router, cors, tmo, logst, info, probe, alias>>

(***************************************************************************)
(* Bounds                                                                  *)
(***************************************************************************)
MaxOpts == 3        \* longest option list given to router.New
MaxRequests == 2    \* requests served by one CORS stage
MaxWrites == 2      \* writes the wrapped handler makes inside the timeout stage
MaxHide == 2        \* longest HideHeaders list of a logging stage
MaxProbes == 3      \* longest probe list of a batch
MaxBatches == 2     \* probe batches one InfoHandler runs
MaxTime == 3        \* seconds the clock advances during the batches
MaxInvokes == 2     \* invocations of one adapter-built probe
MaxAliasOpts == 2   \* longest option list of a pipeline built from held slices
MaxMutations == 1   \* elements the caller overwrites after router.New returned

(***************************************************************************)
(* Generic helpers                                                         *)
(***************************************************************************)
Range(s) == {s[i] : i \in 1..Len(s)}

SeqsUpTo(S, n) == UNION {[1..k -> S] : k \in 0..n}

RECURSIVE Reverse(_)
Reverse(s) == IF s = <<>> THEN <<>> ELSE Reverse(Tail(s)) \o <<Head(s)>>

\* strings.Join(elems, sep)
RECURSIVE Join(_, _)
Join(elems, sep) ==
    IF elems = <<>> THEN ""
    ELSE IF Len(elems) = 1 THEN elems[1]
    ELSE elems[1] \o sep \o Join(Tail(elems), sep)

(***************************************************************************)
(* net/http values: header collections and response writers                *)
(***************************************************************************)
\* An http.Header: a function from the keys present to their value lists.
NoHeaders == [k \in {} |-> <<>>]

\* Header.Set(key, value) with an already canonical key
HeaderSet(h, key, value) ==
    [k \in (DOMAIN h) \cup {key} |-> IF k = key THEN <<value>> ELSE h[k]]

\* Header.Get(key): first value, "" when absent
HeaderGet(h, key) ==
    IF key \in DOMAIN h /\ Len(h[key]) > 0 THEN h[key][1] ELSE ""

StatusOK == 200
StatusServiceUnavailable == 503

\* A fresh response writer: no status written (code 0), no header, no body.
NewWriter == [code |-> 0, header |-> NoHeaders, body |-> ""]

\* ResponseWriter.WriteHeader: the first status written is the one sent.
WriteHeader(w, code) == IF w.code = 0 THEN [w EXCEPT !.code = code] ELSE w

\* ResponseWriter.Write: an implicit 200 when no status was written yet.
Write(w, bytes) == [WriteHeader(w, StatusOK) EXCEPT !.body = @ \o bytes]

\* The status the client reads: 200 when the handler chain wrote none.
ClientCode(w) == IF w.code = 0 THEN StatusOK ELSE w.code

(***************************************************************************)
(* Requests                                                                *)
(***************************************************************************)
MethodGet == "GET"
MethodPost == "POST"
MethodOptions == "OPTIONS"

\* A request: r.Method, r.URL.Path, r.Header, r.ContentLength, and two facts
\* about its processing that the environment decides: whether the deadline of
\* a timeout stage wins the race against the handler (slow) and whether the
\* external OpenAPI validator accepts it (valid).
Request(method, path, header, contentLength, slow, valid) ==
    [method |-> method, path |-> path, header |-> header,
     contentLength |-> contentLength, slow |-> slow, valid |-> valid]

\* A request carrying at most an Origin header ("" = no Origin header)
OriginRequest(method, origin) ==
    Request(method, "/",
            IF origin = "" THEN NoHeaders ELSE HeaderSet(NoHeaders, "Origin", origin),
            0, FALSE, TRUE)

(***************************************************************************)
(* Configuration (router.Config, router.CORSConfig)                        *)
(***************************************************************************)
CORSConfig(origins, methods, headers, allowCredentials) ==
    [Origins |-> origins, Methods |-> methods, Headers |-> headers,
     AllowCredentials |-> allowCredentials]

NoCORS == CORSConfig(<<>>, <<>>, <<>>, FALSE)

Config(timeout, corsCfg, quietdownRoutes, hideHeaders) ==
    [Timeout |-> timeout, CORS |-> corsCfg,
     QuietdownRoutes |-> quietdownRoutes, HideHeaders |-> hideHeaders]

\* cloneStrings: nil for an empty list, else a copy; lists are values here,
\* so the copy is the list and nil is the empty list.
cloneStrings(values) == IF Len(values) = 0 THEN <<>> ELSE values

(***************************************************************************)
(* Slices as views of backing arrays (for the aliasing specification)      *)
(***************************************************************************)
\* A slice value: arr names the caller's array it views (its elements are
\* in the heap, where the caller can overwrite them); arr = "" is an array
\* nobody else holds, with its elements in own.  The length of a slice
\* belongs to the slice value, so it never changes under its holder.
CallerSlice(arr) == [arr |-> arr, own |-> <<>>]
OwnSlice(elems) == [arr |-> "", own |-> elems]
NilSlice == OwnSlice(<<>>)

Elems(heap, s) == IF s.arr = "" THEN s.own ELSE heap[s.arr]

\* A variant that returns the slice it was given.
cloneStringsIn_SameArray(heap, values) == values

\* cloneStrings on a slice: nil for length 0, else make + copy
cloneStringsIn(heap, values) == OwnSlice(Elems(heap, values))

(***************************************************************************)
(* CORS stage                                                              *)
(***************************************************************************)
\* letter-case folding of the origins the model uses
FoldOrigin(origin) == IF origin = "https://A.example" THEN "https://a.example" ELSE origin

\* A variant that compares origins without regard to letter case.
allowedOrigin_IgnoreCase(origin, allowed) ==
    \E i \in 1..Len(allowed) :
        allowed[i] = "*" \/ FoldOrigin(allowed[i]) = FoldOrigin(origin)

\* allowedOrigin: "*" or an exact (case-sensitive) match
allowedOrigin(origin, allowed) ==
    \E i \in 1..Len(allowed) : allowed[i] = "*" \/ allowed[i] = origin

\* The CORS headers of an allowed origin, and of a preflight answer
SetAllowOrigin(w, origin) ==
    [w EXCEPT !.header = HeaderSet(HeaderSet(@, "Access-Control-Allow-Origin", origin),
                                   "Vary", "Origin")]

SetPreflight(w, stage) ==
    LET w2 == [w EXCEPT !.header =
                  HeaderSet(HeaderSet(@, "Access-Control-Allow-Methods",
                                      Join(stage.methods, ",")),
                            "Access-Control-Allow-Headers", Join(stage.headers, ","))]
    IN  IF stage.allowCredentials
        THEN [w2 EXCEPT !.header =
                 HeaderSet(@, "Access-Control-Allow-Credentials", "true")]
        ELSE w2

\* A variant that forwards the preflight request to the wrapped handler.
corsServeHTTP_ForwardsPreflight(stage, r, w) ==
    LET origin == HeaderGet(r.header, "Origin") IN
    IF origin = "" THEN [w |-> w, next |-> TRUE]
    ELSE
      LET w1 == IF \E i \in 1..Len(stage.origins) :
                      stage.origins[i] = "*" \/ stage.origins[i] = origin
                THEN SetAllowOrigin(w, origin) ELSE w
      IN  IF r.method = MethodOptions
          THEN [w |-> SetPreflight(w1, stage), next |-> TRUE]
          ELSE [w |-> w1, next |-> TRUE]

\* A variant that answers every OPTIONS request, with or without Origin.
corsServeHTTP_PreflightWithoutOrigin(stage, r, w) ==
    LET origin == HeaderGet(r.header, "Origin")
        w1 == IF origin # "" /\ (\E i \in 1..Len(stage.origins) :
                                   stage.origins[i] = "*" \/ stage.origins[i] = origin)
              THEN SetAllowOrigin(w, origin) ELSE w
    IN  IF r.method = MethodOptions
        THEN [w |-> WriteHeader(SetPreflight(w1, stage), StatusOK), next |-> FALSE]
        ELSE [w |-> w1, next |-> TRUE]

\* A variant that answers a preflight only when its origin is allowed.
corsServeHTTP_AllowedPreflightOnly(stage, r, w) ==
    LET origin == HeaderGet(r.header, "Origin")
        allowed == \E i \in 1..Len(stage.origins) :
                      stage.origins[i] = "*" \/ stage.origins[i] = origin
    IN  IF origin = "" \/ ~allowed THEN [w |-> w, next |-> TRUE]
        ELSE IF r.method = MethodOptions
        THEN [w |-> WriteHeader(SetPreflight(SetAllowOrigin(w, origin), stage), StatusOK),
              next |-> FALSE]
        ELSE [w |-> SetAllowOrigin(w, origin), next |-> TRUE]

\* The request handler corsMiddleware returns, as its effect on the response
\* writer w plus whether next.ServeHTTP(w, r) is called.
corsServeHTTP(stage, r, w) ==
    LET origin == HeaderGet(r.header, "Origin") IN
    IF origin = "" THEN [w |-> w, next |-> TRUE]
    ELSE
      LET w1 == IF allowedOrigin(origin, stage.origins)
                THEN SetAllowOrigin(w, origin) ELSE w
      IN  IF r.method = MethodOptions
          THEN [w |-> WriteHeader(SetPreflight(w1, stage), StatusOK), next |-> FALSE]
          ELSE [w |-> w1, next |-> TRUE]

\* corsMiddleware(cfg): the Middleware value; it captures copies of the lists.
corsMiddleware(cfg) ==
    [kind |-> "cors",
     origins |-> cloneStrings(cfg.Origins),
     methods |-> cloneStrings(cfg.Methods),
     headers |-> cloneStrings(cfg.Headers),
     allowCredentials |-> cfg.AllowCredentials]

(***************************************************************************)
(* Logging stage: quiet routes, header copy and redaction                  *)
(***************************************************************************)
\* The characters of the header names the model uses.
Chars(name) ==
    CASE name = "Token"  -> <<"T", "o", "k", "e", "n">>
      [] name = "token"  -> <<"t", "o", "k", "e", "n">>
      [] name = "TOKEN"  -> <<"T", "O", "K", "E", "N">>
      [] name = "X-Id"   -> <<"X", "-", "I", "d">>
      [] name = "x-id"   -> <<"x", "-", "i", "d">>
      [] name = "x-iD"   -> <<"x", "-", "i", "D">>
      [] name = "Accept" -> <<"A", "c", "c", "e", "p", "t">>
      [] name = "x id"   -> <<"x", " ", "i", "d">>

LowerLetters == <<"a", "c", "d", "e", "i", "k", "n", "o", "p", "t", "x">>
UpperLetters == <<"A", "C", "D", "E", "I", "K", "N", "O", "P", "T", "X">>

ToUpper(c) ==
    IF \E i \in 1..Len(LowerLetters) : LowerLetters[i] = c
    THEN UpperLetters[CHOOSE i \in 1..Len(LowerLetters) : LowerLetters[i] = c]
    ELSE c

ToLower(c) ==
    IF \E i \in 1..Len(UpperLetters) : UpperLetters[i] = c
    THEN LowerLetters[CHOOSE i \in 1..Len(UpperLetters) : UpperLetters[i] = c]
    ELSE c

\* A valid header field byte: here a letter or "-" (a space is not).
ValidHeaderFieldByte(c) == c \in Range(LowerLetters) \cup Range(UpperLetters) \cup {"-"}

RECURSIVE CanonicalChars(_, _)
CanonicalChars(cs, upper) ==
    IF cs = <<>> THEN <<>>
    ELSE LET c == IF upper THEN ToUpper(Head(cs)) ELSE ToLower(Head(cs))
         IN  <<c>> \o CanonicalChars(Tail(cs), c = "-")

\* http.CanonicalHeaderKey: first letter and every letter after a hyphen in
\* upper case, the rest in lower case; a key holding an invalid byte is
\* returned unchanged.
CanonicalHeaderKey(name) ==
    LET cs == Chars(name) IN
    IF \E i \in 1..Len(cs) : ~ValidHeaderFieldByte(cs[i]) THEN name
    ELSE Join(CanonicalChars(cs, TRUE), "")

\* A variant for which no path is quiet.
shouldQuietRoute_Never(path, quietdownRoutes) == FALSE

shouldQuietRoute(path, quietdownRoutes) ==
    \E i \in 1..Len(quietdownRoutes) : quietdownRoutes[i] = path

\* cloneHeaders: a new map with a copy of every value list
cloneHeaders(src) == [k \in DOMAIN src |-> [i \in 1..Len(src[k]) |-> src[k][i]]]

RECURSIVE TotalLen(_)
TotalLen(values) ==
    IF values = <<>> THEN 0 ELSE Len(Head(values)) + TotalLen(Tail(values))

Placeholder(n) == "[REDACTED - " \o ToString(n) \o " bytes]"

\* redactHeaders: for each configured name in turn, replace the value list
\* under its canonical key, if present, by one placeholder.
RECURSIVE redactHeaders(_, _)
redactHeaders(headers, hideHeaders) ==
    IF hideHeaders = <<>> THEN headers
    ELSE LET canonical == CanonicalHeaderKey(Head(hideHeaders))
             redacted ==
                 IF canonical \notin DOMAIN headers THEN headers
                 ELSE [headers EXCEPT
                         ![canonical] = <<Placeholder(TotalLen(headers[canonical]))>>]
         IN  redactHeaders(redacted, Tail(hideHeaders))

\* Header collections are maps the stage reaches through references: the
\* store gives the contents behind each reference.  headers :=
\* cloneHeaders(r.Header) adds a collection of its own to the store.
cloneHeadersIn_SameCollection(store, src) == [store |-> store, ref |-> src]

cloneHeadersIn(store, src) ==
    [store |-> store @@ ("copy" :> cloneHeaders(store[src])), ref |-> "copy"]

\* lines 82-83 of the logging stage: the collection that is logged and the
\* request's own collection afterwards
LoggedHeaders(r, hideHeaders) ==
    LET c == cloneHeadersIn("request" :> r.header, "request")
        after == [c.store EXCEPT ![c.ref] = redactHeaders(@, hideHeaders)]
    IN  [logged |-> after[c.ref], request |-> after["request"]]

\* The record the logging stage hands to the logger for request r.
LogRecord(r, hideHeaders) ==
    LET attrs == [Path |-> r.path, Method |-> r.method,
                  Header |-> LoggedHeaders(r, hideHeaders).logged]
    IN  IF r.contentLength > 0
        THEN attrs @@ [ContentLength |-> r.contentLength]
        ELSE attrs

\* The request handler loggingMiddleware returns: the records emitted so far
\* after its pre-phase (it then always calls next.ServeHTTP(w, r)).
loggingServeHTTP(stage, r, logs) ==
    IF ~shouldQuietRoute(r.path, stage.quiet)
    THEN Append(logs, LogRecord(r, stage.hide))
    ELSE logs

\* the request the logging stage passes to next.ServeHTTP(w, r)
loggingNextRequest(stage, r) ==
    IF ~shouldQuietRoute(r.path, stage.quiet)
    THEN [r EXCEPT !.header = LoggedHeaders(r, stage.hide).request]
    ELSE r

loggingMiddleware(logger, quietdownRoutes, hideHeaders) ==
    [kind |-> "logging", logger |-> logger,
     quiet |-> cloneStrings(quietdownRoutes), hide |-> cloneStrings(hideHeaders)]

(***************************************************************************)
(* Timeout and validation stages, recording stages, the terminal handler   *)
(***************************************************************************)
timeoutMiddleware(timeout) == [kind |-> "timeout", d |-> timeout]

oapiMiddleware(swagger) == [kind |-> "oapi", swagger |-> swagger]

\* The *openapi3.T the caller holds and passes to WithSwagger: its server
\* list and its paths.
CallerDocument ==
    [Servers |-> <<"https://api.example">>, Paths |-> <<"/", "/status">>]

\* The Middleware oapiMiddleware returns, applied to a handler: it sets
\* swagger.Servers = nil on the document it was given before it builds the
\* validator.
oapiClearServers(doc) == [doc EXCEPT !.Servers = <<>>]

\* The caller's document after applyMiddlewares ran over `middlewares`.
DocumentAfter(doc, middlewares) ==
    IF \E i \in 1..Len(middlewares) : middlewares[i].kind = "oapi"
    THEN oapiClearServers(doc) ELSE doc

\* A caller-supplied stage of the tests' recordingMiddleware shape:
\* record label-before, call next, record label-after.
recordingMiddleware(label) == [kind |-> "rec", label |-> label]

NilMiddleware == [kind |-> "nil"]

\* The terminal handler: writes status `code` (0: writes no status) and `body`.
Handler(code, body) == [kind |-> "handler", code |-> code, body |-> body]

NilHandler == [kind |-> "nil"]

\* What one request/response exchange observes: the response writer, the
\* order of stage and handler events on the request's goroutine, the number
\* of handler invocations, the requests the handler saw, the log records,
\* what ran detached after a timeout stage stopped waiting, and the order in
\* which log records were emitted and the handler started (events).
NewExchange ==
    [w |-> NewWriter, trace |-> <<>>, calls |-> 0, seen |-> <<>>, logs |-> <<>>,
     detached |-> <<>>, events |-> <<>>]

apiServeHTTP(h, r, x) ==
    LET w1 == IF h.code = 0 THEN x.w ELSE WriteHeader(x.w, h.code)
        w2 == IF h.body = "" THEN w1 ELSE Write(w1, h.body)
    IN  [x EXCEPT !.w = w2, !.trace = Append(@, "handler"),
                  !.calls = @ + 1, !.seen = Append(@, r),
                  !.events = Append(@, "handler")]

\* http.TimeoutHandler, handler finished first: the buffered header, status
\* and body are copied to the real writer.
TimeoutCopy(w, tw) ==
    LET h == [k \in (DOMAIN w.header) \cup (DOMAIN tw.header) |->
                 IF k \in DOMAIN tw.header THEN tw.header[k] ELSE w.header[k]]
    IN  Write(WriteHeader([w EXCEPT !.header = h], ClientCode(tw)), tw.body)

\* http.TimeoutHandler, deadline first: 503 with the configured body.
TimeoutExpired(w) == Write(WriteHeader(w, StatusServiceUnavailable), "Timeout")

\* A wrapped handler: the stages wrapped around the terminal handler h,
\* outermost first.
RECURSIVE ServeHTTP(_, _, _, _)
ServeHTTP(stages, h, r, x) ==
    IF stages = <<>> THEN apiServeHTTP(h, r, x)
    ELSE
      LET s == Head(stages)
          rest == Tail(stages)
      IN  CASE s.kind = "rec" ->
                 LET x1 == ServeHTTP(rest, h, r,
                              [x EXCEPT !.trace = Append(@, s.label \o "-before")])
                 IN  [x1 EXCEPT !.trace = Append(@, s.label \o "-after")]
            [] s.kind = "cors" ->
                 LET d == corsServeHTTP(s, r, x.w)
                 IN  IF d.next THEN ServeHTTP(rest, h, r, [x EXCEPT !.w = d.w])
                     ELSE [x EXCEPT !.w = d.w]
            [] s.kind = "logging" ->
                 LET logs == loggingServeHTTP(s, r, x.logs)
                 IN  ServeHTTP(rest, h, loggingNextRequest(s, r),
                               [x EXCEPT !.logs = logs,
                                         !.events = IF Len(logs) > Len(x.logs)
                                                    THEN Append(@, "log") ELSE @])
            [] s.kind = "oapi" ->
                 IF r.valid THEN ServeHTTP(rest, h, r, x)
                 ELSE [x EXCEPT !.w = Write(WriteHeader(@, 400), "invalid")]
            [] s.kind = "timeout" ->
                 LET inner == ServeHTTP(rest, h, r,
                                 [x EXCEPT !.w = NewWriter, !.trace = <<>>])
                 IN  IF r.slow
                     THEN [x EXCEPT !.w = TimeoutExpired(@),
                                    !.calls = inner.calls,
                                    !.seen = inner.seen,
                                    !.logs = inner.logs,
                                    !.events = inner.events,
                                    !.detached = inner.trace \o inner.detached]
                     ELSE [inner EXCEPT !.w = TimeoutCopy(x.w, inner.w),
                                        !.trace = x.trace \o inner.trace]

(***************************************************************************)
(* Options (router/options.go)                                             *)
(***************************************************************************)
DefaultTimeout == 30    \* seconds

\* The options struct
Options(config, logger, swagger, prepend, append, override, enableOpenAPI, enableCORS, enableTimeout, enableLogging) ==
    [config |-> config, logger |-> logger, swagger |-> swagger,
     prepend |-> prepend, append |-> append, override |-> override,
     enableOpenAPI |-> enableOpenAPI, enableCORS |-> enableCORS,
     enableTimeout |-> enableTimeout, enableLogging |-> enableLogging]

defaultOptions ==
    Options(Config(DefaultTimeout, NoCORS, <<>>, <<>>), "default", "nil",
            <<>>, <<>>, <<>>, TRUE, TRUE, TRUE, TRUE)

sanitizeCORSConfig(cfg) ==
    [cfg EXCEPT !.Headers = cloneStrings(@), !.Methods = cloneStrings(@),
                !.Origins = cloneStrings(@)]

sanitizeConfig(cfg) ==
    [cfg EXCEPT !.QuietdownRoutes = cloneStrings(@), !.HideHeaders = cloneStrings(@),
                !.CORS = sanitizeCORSConfig(@)]

shouldApplyCORS(cfg) == Len(cfg.Origins) > 0

\* The Option values: what each With* / Without* constructor returns.
NilOption == [kind |-> "nil"]
WithConfig(cfg) == [kind |-> "WithConfig", cfg |-> sanitizeConfig(cfg)]
\* a mutator assigns one field of the Config; NilMutator is a nil func
SetField(field, value) == [kind |-> "set", field |-> field, value |-> (field :> value)]
NilMutator == [kind |-> "nil"]
WithConfigMutator(mutator) == [kind |-> "WithConfigMutator", mutator |-> mutator]
WithLogger(logger) == [kind |-> "WithLogger", logger |-> logger]
WithSwagger(swagger) == [kind |-> "WithSwagger", swagger |-> swagger]
WithMiddlewares(middlewares) == [kind |-> "WithMiddlewares", mws |-> middlewares]
WithTrailingMiddlewares(middlewares) ==
    [kind |-> "WithTrailingMiddlewares", mws |-> middlewares]
WithMiddlewareChain(middlewares) == [kind |-> "WithMiddlewareChain", mws |-> middlewares]
WithoutOpenAPIValidation == [kind |-> "WithoutOpenAPIValidation"]
WithoutCORSMiddleware == [kind |-> "WithoutCORSMiddleware"]
WithoutTimeoutMiddleware == [kind |-> "WithoutTimeoutMiddleware"]
WithoutLoggingMiddleware == [kind |-> "WithoutLoggingMiddleware"]

\* append(list, middlewares...): the list options accumulate
appendMiddlewares_Replace(list, middlewares) == middlewares

appendMiddlewares(list, middlewares) == list \o middlewares

\* A variant in which an empty WithMiddlewareChain leaves the override alone.
ApplyOption_EmptyChainIgnored(opt, o) ==
    CASE opt.kind = "WithConfig" -> [o EXCEPT !.config = opt.cfg]
      [] opt.kind = "WithConfigMutator" ->
            IF opt.mutator.kind = "nil" THEN o
            ELSE [o EXCEPT !.config[opt.mutator.field] =
                                opt.mutator.value[opt.mutator.field]]
      [] opt.kind = "WithLogger" -> [o EXCEPT !.logger = opt.logger]
      [] opt.kind = "WithSwagger" -> [o EXCEPT !.swagger = opt.swagger]
      [] opt.kind = "WithMiddlewares" -> [o EXCEPT !.prepend = @ \o opt.mws]
      [] opt.kind = "WithTrailingMiddlewares" -> [o EXCEPT !.append = @ \o opt.mws]
      [] opt.kind = "WithMiddlewareChain" ->
            IF Len(opt.mws) = 0 THEN o ELSE [o EXCEPT !.override = opt.mws]
      [] opt.kind = "WithoutOpenAPIValidation" -> [o EXCEPT !.enableOpenAPI = FALSE]
      [] opt.kind = "WithoutCORSMiddleware" -> [o EXCEPT !.enableCORS = FALSE]
      [] opt.kind = "WithoutTimeoutMiddleware" -> [o EXCEPT !.enableTimeout = FALSE]
      [] opt.kind = "WithoutLoggingMiddleware" -> [o EXCEPT !.enableLogging = FALSE]

\* opt(settings): the closure each Option value runs on the options struct
ApplyOption(opt, o) ==
    CASE opt.kind = "WithConfig" -> [o EXCEPT !.config = opt.cfg]
      [] opt.kind = "WithConfigMutator" ->
            IF opt.mutator.kind = "nil" THEN o
            ELSE [o EXCEPT !.config[opt.mutator.field] =
                                opt.mutator.value[opt.mutator.field]]
      [] opt.kind = "WithLogger" -> [o EXCEPT !.logger = opt.logger]
      [] opt.kind = "WithSwagger" -> [o EXCEPT !.swagger = opt.swagger]
      [] opt.kind = "WithMiddlewares" -> [o EXCEPT !.prepend = appendMiddlewares(@, opt.mws)]
      [] opt.kind = "WithTrailingMiddlewares" -> [o EXCEPT !.append = appendMiddlewares(@, opt.mws)]
      [] opt.kind = "WithMiddlewareChain" -> [o EXCEPT !.override = opt.mws]
      [] opt.kind = "WithoutOpenAPIValidation" -> [o EXCEPT !.enableOpenAPI = FALSE]
      [] opt.kind = "WithoutCORSMiddleware" -> [o EXCEPT !.enableCORS = FALSE]
      [] opt.kind = "WithoutTimeoutMiddleware" -> [o EXCEPT !.enableTimeout = FALSE]
      [] opt.kind = "WithoutLoggingMiddleware" -> [o EXCEPT !.enableLogging = FALSE]

\* A variant that emits the CORS stage ahead of the validation stage.
defaultMiddlewares_CorsFirst(o) ==
    (IF o.enableCORS /\ shouldApplyCORS(o.config.CORS)
     THEN <<corsMiddleware(o.config.CORS)>> ELSE <<>>)
    \o (IF o.enableOpenAPI /\ o.swagger # "nil"
        THEN <<oapiMiddleware(o.swagger)>> ELSE <<>>)
    \o (IF o.enableTimeout /\ o.config.Timeout > 0
        THEN <<timeoutMiddleware(o.config.Timeout)>> ELSE <<>>)
    \o (IF o.enableLogging /\ o.logger # "nil"
        THEN <<loggingMiddleware(o.logger, o.config.QuietdownRoutes,
                                 o.config.HideHeaders)>>
        ELSE <<>>)

\* A variant that does not look at the CORS flag.
defaultMiddlewares_IgnoresCORSFlag(o) ==
    (IF o.enableOpenAPI /\ o.swagger # "nil"
     THEN <<oapiMiddleware(o.swagger)>> ELSE <<>>)
    \o (IF shouldApplyCORS(o.config.CORS)
        THEN <<corsMiddleware(o.config.CORS)>> ELSE <<>>)
    \o (IF o.enableTimeout /\ o.config.Timeout > 0
        THEN <<timeoutMiddleware(o.config.Timeout)>> ELSE <<>>)
    \o (IF o.enableLogging /\ o.logger # "nil"
        THEN <<loggingMiddleware(o.logger, o.config.QuietdownRoutes,
                                 o.config.HideHeaders)>>
        ELSE <<>>)

\* A variant that builds the timeout stage whatever the duration.
defaultMiddlewares_TimeoutUnguarded(o) ==
    (IF o.enableOpenAPI /\ o.swagger # "nil"
     THEN <<oapiMiddleware(o.swagger)>> ELSE <<>>)
    \o (IF o.enableCORS /\ shouldApplyCORS(o.config.CORS)
        THEN <<corsMiddleware(o.config.CORS)>> ELSE <<>>)
    \o (IF o.enableTimeout
        THEN <<timeoutMiddleware(o.config.Timeout)>> ELSE <<>>)
    \o (IF o.enableLogging /\ o.logger # "nil"
        THEN <<loggingMiddleware(o.logger, o.config.QuietdownRoutes,
                                 o.config.HideHeaders)>>
        ELSE <<>>)

defaultMiddlewares(o) ==
    (IF o.enableOpenAPI /\ o.swagger # "nil"
     THEN <<oapiMiddleware(o.swagger)>> ELSE <<>>)
    \o (IF o.enableCORS /\ shouldApplyCORS(o.config.CORS)
        THEN <<corsMiddleware(o.config.CORS)>> ELSE <<>>)
    \o (IF o.enableTimeout /\ o.config.Timeout > 0
        THEN <<timeoutMiddleware(o.config.Timeout)>> ELSE <<>>)
    \o (IF o.enableLogging /\ o.logger # "nil"
        THEN <<loggingMiddleware(o.logger, o.config.QuietdownRoutes,
                                 o.config.HideHeaders)>>
        ELSE <<>>)

\* A variant in which the override replaces the defaults only.
middlewareChain_OverrideKeepsPrepend(o) ==
    IF Len(o.override) > 0 THEN o.prepend \o o.override \o o.append
    ELSE o.prepend \o defaultMiddlewares(o) \o o.append

middlewareChain(o) ==
    IF Len(o.override) > 0 THEN o.override
    ELSE o.prepend \o defaultMiddlewares(o) \o o.append

(***************************************************************************)
(* router.New (router/std.go)                                              *)
(***************************************************************************)
\* middleware(handler): the handler a Middleware value returns for `handler`
\* (a pair: the stages wrapped so far, outermost first, and the terminal).
Wrap(middleware, handler) ==
    IF middleware.kind = "cors" /\ Len(middleware.origins) = 0 THEN handler
    ELSE [handler EXCEPT !.stages = <<middleware>> \o @]

\* the loop of applyMiddlewares, from index i down to 1
RECURSIVE applyFrom(_, _, _)
applyFrom(handler, middlewares, i) ==
    IF i < 1 THEN handler
    ELSE applyFrom(IF middlewares[i].kind = "nil" THEN handler
                   ELSE Wrap(middlewares[i], handler),
                   middlewares, i - 1)

\* A variant that wraps from the first stage to the last.
RECURSIVE applyUpFrom(_, _, _)
applyUpFrom(handler, middlewares, i) ==
    IF i > Len(middlewares) THEN handler
    ELSE applyUpFrom(IF middlewares[i].kind = "nil" THEN handler
                     ELSE Wrap(middlewares[i], handler),
                     middlewares, i + 1)

applyMiddlewares_FirstToLast(handler, middlewares) ==
    applyUpFrom(handler, middlewares, 1)

applyMiddlewares(handler, middlewares) ==
    IF Len(middlewares) = 0 THEN handler
    ELSE applyFrom(handler, middlewares, Len(middlewares))

\* the option loop of New: the settings after opts[i..], and how many
\* option closures ran
RECURSIVE ApplyOptions(_, _)
ApplyOptions(opts, o) ==
    IF opts = <<>> THEN o
    ELSE ApplyOptions(Tail(opts),
                      IF Head(opts).kind = "nil" THEN o ELSE ApplyOption(Head(opts), o))

NumApplied(opts) == Cardinality({i \in 1..Len(opts) : opts[i].kind # "nil"})

NoSettings == [kind |-> "none"]
NoMux == [stages |-> <<>>, h |-> NilHandler]

\* The tail of New: the chain of the settings and the handler wrapped in it.
Build(apiHandle, settings, applied) ==
    LET chain == middlewareChain(settings)
    IN  [panicked |-> FALSE, applied |-> applied, settings |-> settings,
         chain |-> chain,
         mux |-> applyMiddlewares([stages |-> <<>>, h |-> apiHandle], chain)]

\* A variant of New that looks at the handler only after the option loop.
New_NilCheckAfterOptions(apiHandle, opts) ==
    LET built == Build(apiHandle, ApplyOptions(opts, defaultOptions), NumApplied(opts))
    IN  IF apiHandle.kind = "nil" THEN [built EXCEPT !.panicked = TRUE] ELSE built

\* New(apiHandle, opts...): panics, or returns the mux serving finalHandler.
New(apiHandle, opts) ==
    IF apiHandle.kind = "nil"
    THEN [panicked |-> TRUE, applied |-> 0, settings |-> NoSettings,
          chain |-> <<>>, mux |-> NoMux]
    ELSE Build(apiHandle, ApplyOptions(opts, defaultOptions), NumApplied(opts))

(***************************************************************************)
(* Errors and contexts (errors, fmt, context, time)                        *)
(***************************************************************************)
\* An error value: its text and its Unwrap chain, itself first; a layer is
\* identified by its text.  NilErr is the nil error.
NilErr == [msg |-> "<nil>", chain |-> <<>>]

errorsNew(text) == [msg |-> text, chain |-> <<text>>]

\* fmt.Errorf(format, err) where the format's verb for err is %w
ErrorfW(prefix, err) ==
    [msg |-> prefix \o err.msg, chain |-> <<prefix \o err.msg>> \o err.chain]

\* fmt.Errorf(format, ...) with no %w verb: a new error with no cause
Errorf(text) == errorsNew(text)

errorsIs(err, target) ==
    /\ target.chain # <<>>
    /\ \E i \in 1..Len(err.chain) : err.chain[i] = target.chain[1]

DeadlineExceeded == errorsNew("context deadline exceeded")
Canceled == errorsNew("context canceled")

\* time.Duration values are whole seconds; Duration.String()
DurationString(d) ==
    IF d < 60 THEN ToString(d) \o "s"
    ELSE ToString(d \div 60) \o "m" \o ToString(d % 60) \o "s"

\* A context: who it is, its deadline if any, and ctx.Err()
Context(id, hasDeadline, deadline, err) ==
    [id |-> id, hasDeadline |-> hasDeadline, deadline |-> deadline, err |-> err]

NilContext == Context("nil", FALSE, 0, NilErr)
Background == Context("background", FALSE, 0, NilErr)

\* context.WithTimeout(parent, timeout) called at time now
WithTimeout(parent, timeout, now, id) ==
    LET d == IF parent.hasDeadline /\ parent.deadline < now + timeout
             THEN parent.deadline ELSE now + timeout
    IN  Context(id, TRUE, d,
                IF parent.err # NilErr THEN parent.err
                ELSE IF d <= now THEN DeadlineExceeded ELSE NilErr)

(***************************************************************************)
(* Probe adapters (probe/probe.go, probe/helpers.go)                       *)
(***************************************************************************)
\* A func(ctx) error literal: what it returns.  "ctx" returns ctx.Err().
Func(ret) == [kind |-> "func", ret |-> ret]
NilFunc == [kind |-> "nil"]

ErrBoom == errorsNew("boom")

\* fmt.Errorf("%w: %w", context.Canceled, context.DeadlineExceeded)
ErrBoth ==
    [msg |-> Canceled.msg \o ": " \o DeadlineExceeded.msg,
     chain |-> <<Canceled.msg \o ": " \o DeadlineExceeded.msg>>
               \o Canceled.chain \o DeadlineExceeded.chain]

FuncReturn(ret, ctx) ==
    CASE ret = "ok" -> NilErr
      [] ret = "boom" -> ErrBoom
      [] ret = "deadline" -> DeadlineExceeded
      [] ret = "canceled" -> Canceled
      [] ret = "both" -> ErrBoth
      [] ret = "ctx" -> ctx.err

contextOrBackground(ctx) == IF ctx # NilContext THEN ctx ELSE Background

nilComponentError(name, component) ==
    Errorf(name \o " probe: " \o component \o " is nil")

NewPingProbe(name, fn) == [kind |-> "ping", name |-> name, fn |-> fn]
NewDBPingProbe(name, db) == [kind |-> "dbping", name |-> name, fn |-> db]
NewMongoPingProbe(client, readPref) ==
    [kind |-> "mongo", fn |-> client, readPref |-> readPref]

\* the wrapping every adapter applies to its collaborator's result
WrapResult_DropsCause(prefix, err) ==
    IF err # NilErr THEN Errorf(prefix \o err.msg) ELSE NilErr

WrapResult(prefix, err) ==
    IF err # NilErr THEN ErrorfW(prefix, err) ELSE NilErr

\* the contexts a probe's collaborator is called with when the probe is
\* invoked with ctx: none when the collaborator is nil, else one
CollaboratorCalls(p, ctx) ==
    IF p.kind = "func" THEN <<ctx>>
    ELSE IF p.fn = NilFunc THEN <<>>
    ELSE <<contextOrBackground(ctx)>>

\* the read preference the mongo probe pings with
MongoReadPref(p) == IF p.readPref = "nil" THEN "primary" ELSE p.readPref

\* probe(ctx): the error the probe returns; ctx is the context as it is when
\* the collaborator returns
ProbeReturn(p, ctx) ==
    CASE p.kind = "func" -> FuncReturn(p.ret, ctx)
      [] p.kind = "ping" ->
            IF p.fn = NilFunc THEN nilComponentError(p.name, "ping function")
            ELSE WrapResult(p.name \o " probe failed: ",
                            FuncReturn(p.fn.ret, contextOrBackground(ctx)))
      [] p.kind = "dbping" ->
            IF p.fn = NilFunc THEN nilComponentError(p.name, "db client")
            ELSE WrapResult(p.name \o " probe failed: ",
                            FuncReturn(p.fn.ret, contextOrBackground(ctx)))
      [] p.kind = "mongo" ->
            IF p.fn = NilFunc THEN errorsNew("mongo probe: client is nil")
            ELSE WrapResult("mongo probe failed: ",
                            FuncReturn(p.fn.ret, contextOrBackground(ctx)))

(***************************************************************************)
(* InfoHandler and its probe batches (info/handler.go, info/probes.go)     *)
(***************************************************************************)
defaultProbeTimeout == 2    \* seconds

\* the fields of InfoHandler the probe batches read
InfoHandler(probeTimeout, livenessChecks, readinessChecks) ==
    [probeTimeout |-> probeTimeout, livenessChecks |-> livenessChecks,
     readinessChecks |-> readinessChecks]

\* filterProbes(checks): the non-nil entries (a nil slice is <<>>)
filterProbes(checks) == SelectSeq(checks, LAMBDA c : c # NilFunc)

NilInfoOption == [kind |-> "nil"]
WithProbeTimeout(timeout) == [kind |-> "WithProbeTimeout", timeout |-> timeout]
WithLivenessChecks(checks) == [kind |-> "WithLivenessChecks", checks |-> checks]
WithReadinessChecks(checks) == [kind |-> "WithReadinessChecks", checks |-> checks]

\* opt(ih)
ApplyInfoOption(opt, ih) ==
    CASE opt.kind = "WithProbeTimeout" ->
            IF opt.timeout > 0 THEN [ih EXCEPT !.probeTimeout = opt.timeout] ELSE ih
      [] opt.kind = "WithLivenessChecks" ->
            [ih EXCEPT !.livenessChecks = filterProbes(opt.checks)]
      [] opt.kind = "WithReadinessChecks" ->
            [ih EXCEPT !.readinessChecks = filterProbes(opt.checks)]

RECURSIVE ApplyInfoOptions(_, _)
ApplyInfoOptions(opts, ih) ==
    IF opts = <<>> THEN ih
    ELSE ApplyInfoOptions(Tail(opts),
                          IF Head(opts).kind = "nil" THEN ih
                          ELSE ApplyInfoOption(Head(opts), ih))

NewInfoHandler(opts) ==
    ApplyInfoOptions(opts, InfoHandler(defaultProbeTimeout, <<>>, <<>>))

\* runChecks: the timeout of the batch
BatchTimeout(ih) ==
    IF ih.probeTimeout <= 0 THEN defaultProbeTimeout ELSE ih.probeTimeout

\* runChecks: the loop's next iteration that invokes a probe, from position
\* i on (Len(checks) + 1: the loop is over)
NextCheck_NilEndsBatch(checks, i) ==
    IF i > Len(checks) THEN i
    ELSE IF checks[i] = NilFunc THEN Len(checks) + 1
    ELSE i

RECURSIVE NextCheck(_, _)
NextCheck(checks, i) ==
    IF i > Len(checks) THEN i
    ELSE IF checks[i] = NilFunc THEN NextCheck(checks, i + 1)
    ELSE i

\* runChecks: the error returned for probe number n (1-based) failing with err
ClassifyError_CancelFirst(err, n, timeout) ==
    IF errorsIs(err, Canceled) \/ errorsIs(err, DeadlineExceeded)
    THEN Errorf("probe " \o ToString(n) \o " was cancelled")
    ELSE ErrorfW("probe " \o ToString(n) \o " failed: ", err)

\* A variant that compares with == instead of errors.Is.
ClassifyError_ExactMatch(err, n, timeout) ==
    IF err = DeadlineExceeded
    THEN Errorf("probe " \o ToString(n) \o " timed out after "
                \o DurationString(timeout))
    ELSE IF err = Canceled
    THEN Errorf("probe " \o ToString(n) \o " was cancelled")
    ELSE ErrorfW("probe " \o ToString(n) \o " failed: ", err)

ClassifyError(err, n, timeout) ==
    IF errorsIs(err, DeadlineExceeded)
    THEN Errorf("probe " \o ToString(n) \o " timed out after "
                \o DurationString(timeout))
    ELSE IF errorsIs(err, Canceled)
    THEN Errorf("probe " \o ToString(n) \o " was cancelled")
    ELSE ErrorfW("probe " \o ToString(n) \o " failed: ", err)

\* A variant in which cancelling has no effect.
CancelContext_NoOp(ctx) == ctx

\* cancel() of a derived context
CancelContext(ctx) == IF ctx.err = NilErr THEN [ctx EXCEPT !.err = Canceled] ELSE ctx

\* the clock reaches t: a context past its deadline expires
ExpireContext(ctx, t) ==
    IF ctx.hasDeadline /\ ctx.deadline <= t /\ ctx.err = NilErr
    THEN [ctx EXCEPT !.err = DeadlineExceeded] ELSE ctx

\* runChecks, lines 23-34: the state of a batch once the loop is reached
BeginBatch(st, entry, checks, parent) ==
    LET base == [st EXCEPT !.entry = entry, !.checks = checks, !.parent = parent,
                           !.batch = @ + 1, !.calls = <<>>, !.errs = <<>>,
                           !.result = NilErr,
                           !.released = FALSE, !.start = st.now,
                           !.prevCtx = st.ctx]
    IN  IF Len(checks) = 0
        THEN [base EXCEPT !.pc = "done", !.timeout = 0, !.idx = 0,
                          !.ctx = NilContext]
        ELSE [base EXCEPT !.pc = "loop", !.timeout = BatchTimeout(st.ih), !.idx = 1,
                          !.ctx = WithTimeout(parent, BatchTimeout(st.ih), st.now,
                                              "probeCtx" \o ToString(st.batch + 1))]

\* the context handed to probe number n
ProbeContext_PerProbe(st, n) ==
    WithTimeout(st.parent, st.timeout, st.now, st.ctx.id)

ProbeContext(st, n) == st.ctx

\* A variant that looks at the batch context before each probe.
LoopStep_ChecksContext(st) ==
    LET n == NextCheck(st.checks, st.idx)
    IN  IF n > Len(st.checks) \/ st.ctx.err # NilErr
        THEN [st EXCEPT !.pc = "done", !.idx = n,
                        !.result = IF n > Len(st.checks) THEN NilErr ELSE st.ctx.err,
                        !.ctx = CancelContext(@), !.released = TRUE]
        ELSE [st EXCEPT !.pc = "running", !.idx = n,
                        !.calls = Append(@, [idx |-> n, probe |-> st.checks[n],
                                             ctx |-> st.ctx.id,
                                             deadline |-> st.ctx.deadline,
                                             at |-> st.now])]

\* runChecks, lines 36-41 and 52: the loop reaches its next probe and
\* invokes it, or ends and returns nil (the deferred cancel runs)
LoopStep(st) ==
    LET n == NextCheck(st.checks, st.idx)
    IN  IF n > Len(st.checks)
        THEN [st EXCEPT !.pc = "done", !.idx = n, !.result = NilErr,
                        !.ctx = CancelContext(@), !.released = TRUE]
        ELSE LET c == ProbeContext(st, n)
             IN  [st EXCEPT !.pc = "running", !.idx = n, !.ctx = c,
                            !.calls = Append(@, [idx |-> n, probe |-> st.checks[n],
                                                 ctx |-> c.id, deadline |-> c.deadline,
                                                 at |-> st.now])]

\* A variant that calls a probe again after it succeeded.
AfterProbe_Retries(st, err) ==
    IF err # NilErr
    THEN [st EXCEPT !.pc = "done", !.errs = Append(@, err),
                    !.result = ClassifyError(err, st.idx, st.timeout),
                    !.ctx = CancelContext(@), !.released = TRUE]
    ELSE [st EXCEPT !.pc = "loop", !.errs = Append(@, err),
                    !.idx = IF Len(st.calls) < 2 THEN @ ELSE @ + 1]

\* A variant that notes the failure and goes on to the next probe.
AfterProbe_KeepsGoing(st, err) ==
    IF err # NilErr /\ st.idx = Len(st.checks)
    THEN [st EXCEPT !.pc = "done", !.errs = Append(@, err),
                    !.result = ClassifyError(err, st.idx, st.timeout),
                    !.ctx = CancelContext(@), !.released = TRUE]
    ELSE [st EXCEPT !.pc = "loop", !.idx = @ + 1, !.errs = Append(@, err)]

\* runChecks, lines 41-50: the probe returned err
AfterProbe(st, err) ==
    IF err # NilErr
    THEN [st EXCEPT !.pc = "done", !.errs = Append(@, err),
                    !.result = ClassifyError(err, st.idx, st.timeout),
                    !.ctx = CancelContext(@), !.released = TRUE]
    ELSE [st EXCEPT !.pc = "loop", !.idx = @ + 1, !.errs = Append(@, err)]

(***************************************************************************)
(* Inputs of the pipeline specifications                                   *)
(***************************************************************************)
MwA == recordingMiddleware("A")
MwB == recordingMiddleware("B")
MwC == recordingMiddleware("C")

OriginA == "https://a.example"
OriginB == "https://b.example"
OriginUpperA == "https://A.example"   \* differs from OriginA in letter case only
OriginOther == "https://evil.example"

CorsA == CORSConfig(<<OriginA>>, <<MethodGet, MethodPost>>, <<"Content-Type">>, TRUE)

ConfigA == Config(5, CorsA, <<"/status">>, <<"token">>)
ConfigZero == Config(0, NoCORS, <<>>, <<>>)

\* The options a caller passes to New
OptionUniverse ==
    { NilOption,
      WithConfig(ConfigA),
      WithConfig(ConfigZero),
      WithConfigMutator(SetField("CORS", CorsA)),
      WithConfigMutator(SetField("Timeout", -1)),
      WithLogger("nil"),
      WithSwagger("doc"),
      WithMiddlewares(<<MwA>>),
      WithMiddlewares(<<MwB, NilMiddleware>>),
      WithTrailingMiddlewares(<<MwC>>),
      WithMiddlewareChain(<<MwA, MwB>>),
      WithMiddlewareChain(<<>>),
      WithoutOpenAPIValidation,
      WithoutCORSMiddleware,
      WithoutTimeoutMiddleware,
      WithoutLoggingMiddleware }

OptionLists == SeqsUpTo(OptionUniverse, MaxOpts)

Teapot == Handler(418, "")

HandlerUniverse == {NilHandler, Teapot}

TokenHeader == HeaderSet(NoHeaders, "Token", "secret")

RouterRequests ==
    { OriginRequest(MethodGet, ""),
      OriginRequest(MethodOptions, OriginA),
      Request(MethodGet, "/", NoHeaders, 0, TRUE, TRUE),
      Request(MethodPost, "/status", TokenHeader, 3, FALSE, FALSE) }

NoRequest == [kind |-> "none"]

(***************************************************************************)
(* Idle values of the state of each specification                          *)
(***************************************************************************)
RouterIdle ==
    [pc |-> "idle", apiHandle |-> NilHandler, opts |-> <<>>, panicked |-> FALSE,
     applied |-> 0, settings |-> NoSettings, chain |-> <<>>, mux |-> NoMux,
     req |-> NoRequest, x |-> NewExchange, doc |-> CallerDocument]

CorsIdle == [cfg |-> NoCORS, w0 |-> NewWriter, handler |-> NoMux, log |-> <<>>]

\* the timeoutWriter handed to the wrapped handler
NewTimeoutWriter ==
    [h |-> NoHeaders, wbuf |-> "", code |-> 0, wroteHeader |-> FALSE, err |-> "nil"]

TmoIdle ==
    [pc |-> "idle", plan |-> <<>>, hpc |-> 1, hdone |-> FALSE, fired |-> FALSE,
     tw |-> NewTimeoutWriter, w |-> NewWriter, wcalls |-> 0, refused |-> 0,
     winner |-> "none", first |-> "none",
     hdoneAtSelect |-> FALSE, firedAtSelect |-> FALSE]

LogIdle ==
    [pc |-> "idle", quiet |-> <<>>, hide |-> <<>>, handler |-> NoMux,
     req |-> NoRequest, x |-> NewExchange]

NoInfoHandler == InfoHandler(0, <<>>, <<>>)

InfoIdle ==
    [pc |-> "idle", ih |-> NoInfoHandler, raw |-> <<>>, entry |-> "none",
     checks |-> <<>>, timeout |-> 0, idx |-> 0, start |-> 0, now |-> 0,
     parent |-> Background, ctx |-> NilContext, released |-> FALSE,
     calls |-> <<>>, errs |-> <<>>, result |-> NilErr, batch |-> 0,
     prevCtx |-> NilContext]

ProbeIdle ==
    [pc |-> "idle", p |-> NilFunc, ctx |-> NilContext, invocations |-> 0,
     received |-> <<>>, collaboratorCalls |-> 0, result |-> NilErr]

\* the caller's []string arrays and []Middleware arrays
CallerHeap ==
    [origins |-> <<OriginA>>, methods |-> <<MethodGet>>, headers |-> <<"Content-Type">>,
     quiet |-> <<"/status">>, hide |-> <<"token">>]

CallerLists == [pre |-> <<MwA>>, app |-> <<MwC>>, chain |-> <<MwA, MwB>>]

AliasIdle ==
    [pc |-> "idle", opts |-> <<>>, heap |-> CallerHeap, heap0 |-> CallerHeap,
     lists |-> CallerLists, chain |-> <<>>, mutations |-> 0,
     req |-> NoRequest, x |-> NewExchange]

(***************************************************************************)
(* Spec: router.New on an option list, then requests through the mux       *)
(***************************************************************************)
RouterAfterNew(apiHandle, opts, res) ==
    [RouterIdle EXCEPT !.pc = IF res.panicked THEN "panicked" ELSE "built",
                       !.apiHandle = apiHandle, !.opts = opts,
                       !.panicked = res.panicked, !.applied = res.applied,
                       !.settings = res.settings, !.chain = res.chain,
                       !.mux = res.mux,
                       !.doc = DocumentAfter(@, res.chain)]

\* mux := New(apiHandle, opts...)
RouterNew ==
    /\ router.pc = "idle"
    /\ \E apiHandle \in HandlerUniverse, opts \in OptionLists :
          router' = RouterAfterNew(apiHandle, opts, New(apiHandle, opts))
    /\ UNCHANGED <<cors, tmo, logst, info, probe, alias>>

\* mux.ServeHTTP(rr, req) on a fresh recorder
RouterServe ==
    /\ router.pc = "built"
    /\ \E r \in RouterRequests :
          router' = [router EXCEPT
                        !.pc = "served", !.req = r,
                        !.x = ServeHTTP(router.mux.stages, router.mux.h, r, NewExchange)]
    /\ UNCHANGED <<cors, tmo, logst, info, probe, alias>>

Init ==
    /\ router = RouterIdle
    /\ cors = CorsIdle
    /\ tmo = TmoIdle
    /\ logst = LogIdle
    /\ info = InfoIdle
    /\ probe = ProbeIdle
    /\ alias = AliasIdle

Next == RouterNew \/ RouterServe

Spec == Init /\ [][Next]_vars

(***************************************************************************)
(* SpecDefaults: the chain of every options struct the option mutators can *)
(* produce (each flag, each collaborator present or absent), then requests *)
(***************************************************************************)
SettingsUniverse ==
    { Options(Config(t, c, <<>>, <<"token">>), logger, swagger, pre, app, <<>>,
              eo, ec, et, el) :
        t \in {-1, 0, 5}, c \in {NoCORS, CorsA},
        logger \in {"nil", "default"}, swagger \in {"nil", "doc"},
        pre \in {<<>>, <<MwA>>}, app \in {<<>>, <<MwC>>},
        eo \in BOOLEAN, ec \in BOOLEAN, et \in BOOLEAN, el \in BOOLEAN }

DefaultsInit ==
    /\ router \in {[RouterIdle EXCEPT !.pc = "configured", !.apiHandle = Teapot,
                                      !.settings = o] : o \in SettingsUniverse}
    /\ cors = CorsIdle
    /\ tmo = TmoIdle
    /\ logst = LogIdle
    /\ info = InfoIdle
    /\ probe = ProbeIdle
    /\ alias = AliasIdle

\* finalHandler := applyMiddlewares(apiHandle, settings.middlewareChain())
RouterBuild ==
    /\ router.pc = "configured"
    /\ LET res == Build(router.apiHandle, router.settings, 0)
       IN  router' = [router EXCEPT !.pc = "built", !.chain = res.chain,
                                    !.mux = res.mux,
                                    !.doc = DocumentAfter(@, res.chain)]
    /\ UNCHANGED <<cors, tmo, logst, info, probe, alias>>

DefaultsNext == RouterBuild \/ RouterServe

SpecDefaults == DefaultsInit /\ [][DefaultsNext]_vars

(***************************************************************************)
(* SpecCORS: one corsMiddleware(cfg) stage around a handler, serving a few *)
(* requests, each on its own response writer                               *)
(***************************************************************************)
CorsConfigs ==
    { CORSConfig(origins, methods, headers, credentials) :
        origins \in {<<>>, <<OriginA>>, <<OriginA, OriginB>>, <<"*">>, <<OriginB, "*">>},
        methods \in {<<>>, <<MethodGet>>, <<MethodGet, MethodPost>>},
        headers \in {<<>>, <<"Content-Type", "Authorization">>},
        credentials \in BOOLEAN }

\* the writer reaching the stage: fresh, or with a header an outer stage set
CorsWriters == {NewWriter, [NewWriter EXCEPT !.header = HeaderSet(@, "Vary", "Accept")]}

CorsRequests ==
    { OriginRequest(method, origin) :
        method \in {MethodGet, MethodOptions},
        origin \in {"", OriginA, OriginUpperA, OriginB, OriginOther} }

CorsInit ==
    /\ router = RouterIdle
    /\ cors \in { [cfg |-> cfg, w0 |-> w0,
                    handler |-> applyMiddlewares([stages |-> <<>>, h |-> Teapot],
                                                 <<corsMiddleware(cfg)>>),
                    log |-> <<>>] : cfg \in CorsConfigs, w0 \in CorsWriters }
    /\ tmo = TmoIdle
    /\ logst = LogIdle
    /\ info = InfoIdle
    /\ probe = ProbeIdle
    /\ alias = AliasIdle

\* handler.ServeHTTP(w, r) with w a copy of the writer w0
CorsServe ==
    /\ Len(cors.log) < MaxRequests
    /\ \E r \in CorsRequests :
          cors' = [cors EXCEPT !.log =
                     Append(@, [req |-> r,
                                x |-> ServeHTTP(cors.handler.stages, cors.handler.h, r,
                                                [NewExchange EXCEPT !.w = cors.w0])])]
    /\ UNCHANGED <<router, tmo, logst, info, probe, alias>>

CorsNext == CorsServe

SpecCORS == CorsInit /\ [][CorsNext]_vars

(***************************************************************************)
(* SpecTimeout: one request inside the handler timeoutMiddleware returns,  *)
(* http.TimeoutHandler(next, timeout, "Timeout").  ServeHTTP starts next   *)
(* on its own goroutine with a timeoutWriter, then selects on the          *)
(* handler's completion (done) and on the deadline (ctx.Done()); a select  *)
(* with both ready takes either.  The request's own cancellation and a     *)
(* panicking handler are left out.                                         *)
(***************************************************************************)
\* what the wrapped handler does with its writer, step by step
HeaderOp == [op |-> "header", key |-> "X-H", value |-> "v"]
StatusOp == [op |-> "status", code |-> 201]
BodyOp == [op |-> "body", bytes |-> "a"]

HandlerPlans == SeqsUpTo({HeaderOp, StatusOp, BodyOp}, MaxWrites)

\* timeoutWriter.WriteHeader: dropped once the stage timed out (err set),
\* superfluous after the first
twWriteHeader(tw, code) ==
    IF tw.err # "nil" \/ tw.wroteHeader THEN tw
    ELSE [tw EXCEPT !.wroteHeader = TRUE, !.code = code]

\* timeoutWriter.Write: refused with ErrHandlerTimeout once err is set,
\* else buffered (with an implicit 200)
twWrite(tw, bytes) ==
    IF tw.err # "nil" THEN tw
    ELSE [twWriteHeader(tw, StatusOK) EXCEPT !.wbuf = @ \o bytes]

\* one step of the wrapped handler on its timeoutWriter
twApply(tw, step) ==
    CASE step.op = "header" -> [tw EXCEPT !.h = HeaderSet(@, step.key, step.value)]
      [] step.op = "status" -> twWriteHeader(tw, step.code)
      [] step.op = "body" -> twWrite(tw, step.bytes)

\* A variant in which the wrapped handler writes to the real writer.
HandlerWrite_Unbuffered(t, step) ==
    [t EXCEPT !.w = CASE step.op = "header" ->
                           [@ EXCEPT !.header = HeaderSet(@, step.key, step.value)]
                      [] step.op = "status" -> WriteHeader(@, step.code)
                      [] step.op = "body" -> Write(@, step.bytes),
              !.hpc = @ + 1]

\* h.handler.ServeHTTP(tw, r): the handler's next write goes to the
\* timeoutWriter; a body write after the timeout returns ErrHandlerTimeout
HandlerWrite(t, step) ==
    [t EXCEPT !.tw = twApply(@, step), !.hpc = @ + 1,
              !.refused = IF step.op = "body" /\ t.tw.err # "nil" THEN @ + 1 ELSE @]

\* the buffered response as a writer value
Buffered(tw) == [code |-> tw.code, header |-> tw.h, body |-> tw.wbuf]

TimeoutInit ==
    /\ router = RouterIdle
    /\ cors = CorsIdle
    /\ tmo \in {[TmoIdle EXCEPT !.pc = "waiting", !.plan = plan] : plan \in HandlerPlans}
    /\ logst = LogIdle
    /\ info = InfoIdle
    /\ probe = ProbeIdle
    /\ alias = AliasIdle

\* the handler goroutine performs its next write
TmoHandlerStep ==
    /\ tmo.pc # "idle" /\ ~tmo.hdone /\ tmo.hpc <= Len(tmo.plan)
    /\ tmo' = HandlerWrite(tmo, tmo.plan[tmo.hpc])
    /\ UNCHANGED <<router, cors, logst, info, probe, alias>>

\* the handler returns: close(done)
TmoHandlerReturn ==
    /\ tmo.pc # "idle" /\ ~tmo.hdone /\ tmo.hpc > Len(tmo.plan)
    /\ tmo' = [tmo EXCEPT !.hdone = TRUE,
                          !.first = IF @ = "none" THEN "handler" ELSE @]
    /\ UNCHANGED <<router, cors, logst, info, probe, alias>>

\* the deadline of the request context passes while the stage is waiting
TmoDeadline ==
    /\ tmo.pc = "waiting" /\ ~tmo.fired
    /\ tmo' = [tmo EXCEPT !.fired = TRUE,
                          !.first = IF @ = "none" THEN "deadline" ELSE @]
    /\ UNCHANGED <<router, cors, logst, info, probe, alias>>

\* select takes <-done: the buffered response is copied to the real writer
TmoSelectDone ==
    /\ tmo.pc = "waiting" /\ tmo.hdone
    /\ tmo' = [tmo EXCEPT !.pc = "returned", !.winner = "handler",
                          !.w = TimeoutCopy(@, Buffered(tmo.tw)),
                          !.wcalls = @ + 1,
                          !.hdoneAtSelect = tmo.hdone, !.firedAtSelect = tmo.fired]
    /\ UNCHANGED <<router, cors, logst, info, probe, alias>>

\* select takes <-ctx.Done(): 503 "Timeout", and the timeoutWriter is closed
TmoSelectDeadline ==
    /\ tmo.pc = "waiting" /\ tmo.fired
    /\ tmo' = [tmo EXCEPT !.pc = "returned", !.winner = "deadline",
                          !.w = TimeoutExpired(@),
                          !.wcalls = @ + 1,
                          !.tw.err = "ErrHandlerTimeout",
                          !.hdoneAtSelect = tmo.hdone, !.firedAtSelect = tmo.fired]
    /\ UNCHANGED <<router, cors, logst, info, probe, alias>>

TimeoutNext ==
    \/ TmoHandlerStep
    \/ TmoHandlerReturn
    \/ TmoDeadline
    \/ TmoSelectDone
    \/ TmoSelectDeadline

SpecTimeout == TimeoutInit /\ [][TimeoutNext]_vars

(***************************************************************************)
(* SpecLog: one loggingMiddleware(logger, quiet, hide) stage around a      *)
(* handler, serving one request                                            *)
(***************************************************************************)
\* configured names, in any letter case (one of them not a valid field name)
HideNames == {"Token", "token", "TOKEN", "x-id", "x-iD", "x id"}

HideLists == SeqsUpTo(HideNames, MaxHide)

\* the value lists a request header may carry
HeaderValues == {<<"secret">>, <<"ab", "cde">>, <<"">>}

\* request headers as the server parses them: canonical keys
RequestHeaders ==
    { [k \in keys |-> IF k = "Accept" THEN <<"text">> ELSE v] :
        keys \in {{"Accept"}, {"Accept", "Token"}, {"Accept", "X-Id"},
                  {"Accept", "Token", "X-Id"}},
        v \in HeaderValues }

LogRequests ==
    { Request(MethodGet, path, h, n, FALSE, TRUE) :
        path \in {"/", "/status"}, h \in RequestHeaders, n \in {-1, 0, 3} }

LogInit ==
    /\ router = RouterIdle
    /\ cors = CorsIdle
    /\ tmo = TmoIdle
    /\ info = InfoIdle
    /\ probe = ProbeIdle
    /\ alias = AliasIdle
    /\ logst \in { [LogIdle EXCEPT
                       !.pc = "ready", !.quiet = quiet, !.hide = hide,
                       !.handler = applyMiddlewares(
                                      [stages |-> <<>>, h |-> Teapot],
                                      <<loggingMiddleware("default", quiet, hide)>>)] :
                    quiet \in {<<>>, <<"/status">>}, hide \in HideLists }

\* handler.ServeHTTP(w, r) through the logging stage
LogServe ==
    /\ logst.pc = "ready"
    /\ \E r \in LogRequests :
          logst' = [logst EXCEPT
                      !.pc = "served", !.req = r,
                      !.x = ServeHTTP(logst.handler.stages, logst.handler.h, r,
                                      NewExchange)]
    /\ UNCHANGED <<router, cors, tmo, info, probe, alias>>

LogNext == LogServe

SpecLog == LogInit /\ [][LogNext]_vars

(***************************************************************************)
(* SpecChecks: an InfoHandler built from options, then probe batches run   *)
(* by runChecks directly and through the liveness / readiness endpoints    *)
(***************************************************************************)
ProbeUniverse ==
    { NilFunc, Func("ok"), Func("boom"), Func("deadline"), Func("canceled"),
      NewPingProbe("db", Func("deadline")) }

ProbeLists == SeqsUpTo(ProbeUniverse, MaxProbes)

TimeoutOptions ==
    { <<>>, <<NilInfoOption, WithProbeTimeout(1)>>,
      <<WithProbeTimeout(3), WithProbeTimeout(0)>> }

\* NewInfoHandler(opts...) with the list configured as liveness or as
\* readiness checks
InfoStates(lists) ==
    { [InfoIdle EXCEPT
          !.pc = "ready", !.raw = raw,
          !.ih = NewInfoHandler(topts \o <<IF live THEN WithLivenessChecks(raw)
                                           ELSE WithReadinessChecks(raw)>>)] :
        raw \in lists, topts \in TimeoutOptions, live \in BOOLEAN }

RequestContext == Context("request", FALSE, 0, NilErr)

ChecksInit ==
    /\ router = RouterIdle
    /\ cors = CorsIdle
    /\ tmo = TmoIdle
    /\ logst = LogIdle
    /\ probe = ProbeIdle
    /\ alias = AliasIdle
    /\ info \in InfoStates(ProbeLists)

CanBegin == info.pc \in {"ready", "done"} /\ info.batch < MaxBatches

\* ih.runChecks(ctx, checks) called with the caller's own list
InfoRunChecks ==
    /\ CanBegin
    /\ info' = BeginBatch(info, "runChecks", info.raw, Background)
    /\ UNCHANGED <<router, cors, tmo, logst, probe, alias>>

\* ih.GetHealthz(w, r): the liveness checks of the handler
InfoGetHealthz ==
    /\ CanBegin
    /\ info' = BeginBatch(info, "GetHealthz", info.ih.livenessChecks, RequestContext)
    /\ UNCHANGED <<router, cors, tmo, logst, probe, alias>>

\* ih.GetReadyz(w, r): the readiness checks of the handler
InfoGetReadyz ==
    /\ CanBegin
    /\ info' = BeginBatch(info, "GetReadyz", info.ih.readinessChecks, RequestContext)
    /\ UNCHANGED <<router, cors, tmo, logst, probe, alias>>

InfoLoop ==
    /\ info.pc = "loop"
    /\ info' = LoopStep(info)
    /\ UNCHANGED <<router, cors, tmo, logst, probe, alias>>

\* the running probe returns
InfoProbeReturn ==
    /\ info.pc = "running"
    /\ info' = AfterProbe(info, ProbeReturn(info.checks[info.idx], info.ctx))
    /\ UNCHANGED <<router, cors, tmo, logst, probe, alias>>

ChecksNext ==
    \/ InfoRunChecks
    \/ InfoGetHealthz
    \/ InfoGetReadyz
    \/ InfoLoop
    \/ InfoProbeReturn

SpecChecks == ChecksInit /\ [][ChecksNext]_vars

(***************************************************************************)
(* SpecBatch: the probe batches of one InfoHandler while the clock runs    *)
(* and the request's context may be cancelled; the probes look at the      *)
(* context they are given                                                  *)
(***************************************************************************)
BatchLists ==
    { <<Func("ctx")>>,
      <<Func("ok"), Func("ctx")>>,
      <<Func("ctx"), Func("ctx")>>,
      <<NilFunc, Func("ctx"), Func("boom")>>,
      <<Func("ok"), Func("ok")>>,
      <<NewPingProbe("db", Func("ctx")), Func("ok")>>,
      <<Func("ok"), NewPingProbe("db", Func("deadline"))>>,
      <<Func("both")>> }

BatchInit ==
    /\ router = RouterIdle
    /\ cors = CorsIdle
    /\ tmo = TmoIdle
    /\ logst = LogIdle
    /\ probe = ProbeIdle
    /\ alias = AliasIdle
    /\ info \in InfoStates(BatchLists)

\* a second passes, while a probe runs or between two batches
InfoTick ==
    /\ info.pc \in {"running", "done"}
    /\ info.now < MaxTime
    /\ info' = [info EXCEPT !.now = @ + 1, !.ctx = ExpireContext(@, info.now + 1)]
    /\ UNCHANGED <<router, cors, tmo, logst, probe, alias>>

\* the caller's context is cancelled while a probe runs
InfoParentCancel ==
    /\ info.pc = "running"
    /\ info.parent.err = NilErr
    /\ info' = [info EXCEPT !.parent = CancelContext(@), !.ctx = CancelContext(@)]
    /\ UNCHANGED <<router, cors, tmo, logst, probe, alias>>

BatchNext ==
    \/ InfoRunChecks
    \/ InfoGetHealthz
    \/ InfoGetReadyz
    \/ InfoLoop
    \/ InfoProbeReturn
    \/ InfoTick
    \/ InfoParentCancel

SpecBatch == BatchInit /\ [][BatchNext]_vars

\* the loop goes on, and every invoked probe returns
SpecBatchLive ==
    /\ BatchInit
    /\ [][BatchNext]_vars
    /\ WF_vars(InfoLoop)
    /\ WF_vars(InfoProbeReturn)

(***************************************************************************)
(* SpecProbe: a probe built by NewPingProbe, NewDBPingProbe or             *)
(* NewMongoPingProbe, invoked with one context after another               *)
(***************************************************************************)
\* the ping function / db / client handed to the constructor
Collaborators ==
    { NilFunc, Func("ok"), Func("boom"), Func("deadline"), Func("ctx") }

AdapterProbes ==
    { NewPingProbe(name, fn) : name \in {"db", "cache"}, fn \in Collaborators }
    \cup { NewDBPingProbe(name, fn) : name \in {"db", "cache"}, fn \in Collaborators }
    \cup { NewMongoPingProbe(fn, rp) : fn \in Collaborators, rp \in {"nil", "secondary"} }

\* the contexts a caller invokes the probe with: nil, live, cancelled, expired
ProbeContexts ==
    { NilContext, Background,
      Context("cancelled", FALSE, 0, Canceled),
      Context("expired", TRUE, 0, DeadlineExceeded) }

ProbeInit ==
    /\ router = RouterIdle
    /\ cors = CorsIdle
    /\ tmo = TmoIdle
    /\ logst = LogIdle
    /\ info = InfoIdle
    /\ probe \in { [ProbeIdle EXCEPT !.pc = "built", !.p = p] : p \in AdapterProbes }
    /\ alias = AliasIdle

\* err := probe(ctx)
ProbeInvoke ==
    /\ probe.pc \in {"built", "invoked"}
    /\ probe.invocations < MaxInvokes
    /\ \E ctx \in ProbeContexts :
          probe' = [probe EXCEPT
                      !.pc = "invoked", !.ctx = ctx, !.invocations = @ + 1,
                      !.received = CollaboratorCalls(probe.p, ctx),
                      !.collaboratorCalls = @ + Len(CollaboratorCalls(probe.p, ctx)),
                      !.result = ProbeReturn(probe.p, ctx)]
    /\ UNCHANGED <<router, cors, tmo, logst, info, alias>>

ProbeNext == ProbeInvoke

SpecProbe == ProbeInit /\ [][ProbeNext]_vars

(***************************************************************************)
(* SpecAlias: router.New on options made from slices the caller keeps,     *)
(* then the caller overwriting elements of those slices' arrays, and       *)
(* requests through the mux                                                *)
(***************************************************************************)
\* what the caller writes into an element of each array
Overwrite ==
    [origins |-> OriginOther, methods |-> "DELETE", headers |-> "X-Evil",
     quiet |-> "/", hide |-> "accept"]

CallerCORS ==
    CORSConfig(CallerSlice("origins"), CallerSlice("methods"), CallerSlice("headers"), TRUE)

CallerConfig == Config(5, CallerCORS, CallerSlice("quiet"), CallerSlice("hide"))

sanitizeConfigIn(heap, cfg) ==
    [cfg EXCEPT !.QuietdownRoutes = cloneStringsIn(heap, @),
                !.HideHeaders = cloneStringsIn(heap, @),
                !.CORS = [@ EXCEPT !.Headers = cloneStringsIn(heap, @),
                                   !.Methods = cloneStringsIn(heap, @),
                                   !.Origins = cloneStringsIn(heap, @)]]

\* WithConfig(cfg) and WithMiddlewareChain(middlewares...): the Option
\* values, which capture a copy made when the option is constructed
WithConfigIn(heap, cfg) == [kind |-> "WithConfig", cfg |-> sanitizeConfigIn(heap, cfg)]

WithMiddlewareChainIn(lists, middlewares) ==
    [kind |-> "WithMiddlewareChain", mws |-> Elems(lists, middlewares)]

AliasOptionUniverse ==
    { WithConfigIn(CallerHeap, CallerConfig),
      WithConfigMutator(SetField("CORS", CallerCORS)),
      WithConfigMutator(SetField("QuietdownRoutes", CallerSlice("quiet"))),
      WithMiddlewares(CallerSlice("pre")),
      WithTrailingMiddlewares(CallerSlice("app")),
      WithMiddlewareChainIn(CallerLists, CallerSlice("chain")) }

AliasOptionLists == SeqsUpTo(AliasOptionUniverse, MaxAliasOpts)

\* defaultOptions, its Config holding nil slices
defaultOptionsIn ==
    [defaultOptions EXCEPT !.config =
        Config(DefaultTimeout, CORSConfig(NilSlice, NilSlice, NilSlice, FALSE),
               NilSlice, NilSlice)]

\* opt(settings) for options made from slices
ApplyOptionIn(lists, opt, o) ==
    CASE opt.kind = "WithConfig" -> [o EXCEPT !.config = opt.cfg]
      [] opt.kind = "WithConfigMutator" ->
            [o EXCEPT !.config[opt.mutator.field] = opt.mutator.value[opt.mutator.field]]
      [] opt.kind = "WithMiddlewares" ->
            [o EXCEPT !.prepend = appendMiddlewares(@, Elems(lists, opt.mws))]
      [] opt.kind = "WithTrailingMiddlewares" ->
            [o EXCEPT !.append = appendMiddlewares(@, Elems(lists, opt.mws))]
      [] opt.kind = "WithMiddlewareChain" -> [o EXCEPT !.override = opt.mws]

RECURSIVE ApplyOptionsIn(_, _, _)
ApplyOptionsIn(lists, opts, o) ==
    IF opts = <<>> THEN o
    ELSE ApplyOptionsIn(lists, Tail(opts), ApplyOptionIn(lists, Head(opts), o))

\* corsMiddleware and loggingMiddleware: the slices the closures capture
corsMiddlewareIn(heap, cfg) ==
    [kind |-> "cors",
     origins |-> cloneStringsIn(heap, cfg.Origins),
     methods |-> cloneStringsIn(heap, cfg.Methods),
     headers |-> cloneStringsIn(heap, cfg.Headers),
     allowCredentials |-> cfg.AllowCredentials]

loggingMiddlewareIn(heap, logger, quietdownRoutes, hideHeaders) ==
    [kind |-> "logging", logger |-> logger,
     quiet |-> cloneStringsIn(heap, quietdownRoutes),
     hide |-> cloneStringsIn(heap, hideHeaders)]

defaultMiddlewaresIn(heap, o) ==
    (IF o.enableOpenAPI /\ o.swagger # "nil"
     THEN <<oapiMiddleware(o.swagger)>> ELSE <<>>)
    \o (IF o.enableCORS /\ Len(Elems(heap, o.config.CORS.Origins)) > 0
        THEN <<corsMiddlewareIn(heap, o.config.CORS)>> ELSE <<>>)
    \o (IF o.enableTimeout /\ o.config.Timeout > 0
        THEN <<timeoutMiddleware(o.config.Timeout)>> ELSE <<>>)
    \o (IF o.enableLogging /\ o.logger # "nil"
        THEN <<loggingMiddlewareIn(heap, o.logger, o.config.QuietdownRoutes,
                                   o.config.HideHeaders)>>
        ELSE <<>>)

middlewareChainIn(heap, o) ==
    IF Len(o.override) > 0 THEN o.override
    ELSE o.prepend \o defaultMiddlewaresIn(heap, o) \o o.append

\* what a stage's closure reads from its captured slices when it serves
StageView(heap, s) ==
    CASE s.kind = "cors" ->
            [s EXCEPT !.origins = Elems(heap, @), !.methods = Elems(heap, @),
                      !.headers = Elems(heap, @)]
      [] s.kind = "logging" ->
            [s EXCEPT !.quiet = Elems(heap, @), !.hide = Elems(heap, @)]
      [] OTHER -> s

\* the handlers New wrapped around apiHandle, as they read their slices
\* while the caller's arrays hold `heap`
MuxView(heap, chain) ==
    applyMiddlewares([stages |-> <<>>, h |-> Teapot],
                     [i \in 1..Len(chain) |-> StageView(heap, chain[i])])

AliasRequests ==
    { OriginRequest(MethodGet, OriginOther),
      OriginRequest(MethodOptions, OriginA),
      Request(MethodPost, "/status", HeaderSet(TokenHeader, "Accept", "text/plain"),
              3, FALSE, TRUE) }

AliasServed(heap, chain, r) ==
    LET mux == MuxView(heap, chain)
    IN  ServeHTTP(mux.stages, mux.h, r, NewExchange)

AliasInit ==
    /\ router = RouterIdle
    /\ cors = CorsIdle
    /\ tmo = TmoIdle
    /\ logst = LogIdle
    /\ info = InfoIdle
    /\ probe = ProbeIdle
    /\ alias = AliasIdle

\* mux := New(apiHandle, opts...)
AliasNew ==
    /\ alias.pc = "idle"
    /\ \E opts \in AliasOptionLists :
          LET o == ApplyOptionsIn(alias.lists, opts, defaultOptionsIn)
          IN  alias' = [alias EXCEPT !.pc = "built", !.opts = opts,
                                     !.chain = middlewareChainIn(alias.heap, o),
                                     !.heap0 = alias.heap]
    /\ UNCHANGED <<router, cors, tmo, logst, info, probe>>

\* values[i] = v, or middlewares[i] = m, by the caller after New returned
AliasMutate ==
    /\ alias.pc \in {"built", "served"}
    /\ alias.mutations < MaxMutations
    /\ \/ \E arr \in DOMAIN alias.heap : \E i \in 1..Len(alias.heap[arr]) :
             /\ alias.heap[arr][i] # Overwrite[arr]
             /\ alias' = [alias EXCEPT !.heap[arr][i] = Overwrite[arr],
                                        !.mutations = @ + 1]
       \/ \E arr \in DOMAIN alias.lists : \E i \in 1..Len(alias.lists[arr]) :
             /\ alias.lists[arr][i] # MwB
             /\ alias' = [alias EXCEPT !.lists[arr][i] = MwB,
                                        !.mutations = @ + 1]
    /\ UNCHANGED <<router, cors, tmo, logst, info, probe>>

\* mux.ServeHTTP(rr, req) on a fresh recorder
AliasServe ==
    /\ alias.pc \in {"built", "served"}
    /\ \E r \in AliasRequests :
          alias' = [alias EXCEPT !.pc = "served", !.req = r,
                                 !.x = AliasServed(alias.heap, alias.chain, r)]
    /\ UNCHANGED <<router, cors, tmo, logst, info, probe>>

AliasNext == AliasNew \/ AliasMutate \/ AliasServe

SpecAlias == AliasInit /\ [][AliasNext]_vars

(***************************************************************************)
(* Vocabulary of the pipeline properties                                   *)
(***************************************************************************)
Built == router.pc \in {"built", "served"}

HasKind(chain, kind) == \E i \in 1..Len(chain) : chain[i].kind = kind

\* the labels of the recording stages of a chain, in chain order
RECURSIVE StageLabels(_)
StageLabels(chain) ==
    IF chain = <<>> THEN <<>>
    ELSE (IF Head(chain).kind = "rec" THEN <<Head(chain).label>> ELSE <<>>)
         \o StageLabels(Tail(chain))

\* S1.pre, ..., Sn.pre, H, Sn.post, ..., S1.post
OnionTrace(labels) ==
    [i \in 1..Len(labels) |-> labels[i] \o "-before"]
    \o <<"handler">>
    \o Reverse([i \in 1..Len(labels) |-> labels[i] \o "-after"])

\* A default stage of the chain answers request r itself: the validator
\* rejects it, the CORS stage answers the preflight, or the deadline fires.
TerminatedByStage(chain, r) ==
    \/ HasKind(chain, "oapi") /\ ~r.valid
    \/ HasKind(chain, "cors") /\ r.method = MethodOptions
                              /\ HeaderGet(r.header, "Origin") # ""
    \/ HasKind(chain, "timeout") /\ r.slow

\* the arguments of every option of one kind, concatenated in option order
RECURSIVE ArgsOf(_, _)
ArgsOf(opts, kind) ==
    IF opts = <<>> THEN <<>>
    ELSE (IF Head(opts).kind = kind THEN Head(opts).mws ELSE <<>>)
         \o ArgsOf(Tail(opts), kind)

\* the argument of the last WithMiddlewareChain call (<<>> when there is none)
RECURSIVE LastChainArg(_)
LastChainArg(opts) ==
    IF opts = <<>> THEN <<>>
    ELSE LET last == opts[Len(opts)]
         IN  IF last.kind = "WithMiddlewareChain" THEN last.mws
             ELSE LastChainArg(SubSeq(opts, 1, Len(opts) - 1))

OverrideInEffect(opts) == Len(LastChainArg(opts)) > 0

NonNil(chain) == SelectSeq(chain, LAMBDA m : m.kind # "nil")

C2_PrependDefaultsAppend ==
    (Built /\ ~OverrideInEffect(router.opts))
    => router.chain = ArgsOf(router.opts, "WithMiddlewares")
                      \o defaultMiddlewares(router.settings)
                      \o ArgsOf(router.opts, "WithTrailingMiddlewares")

\* two WithMiddlewares calls with another option between them
C2_Witness ==
    /\ Built
    /\ Len(router.opts) = 3
    /\ router.opts[1] = WithMiddlewares(<<MwB, NilMiddleware>>)
    /\ router.opts[2] = WithTrailingMiddlewares(<<MwC>>)
    /\ router.opts[3] = WithMiddlewares(<<MwA>>)
    /\ Len(router.chain) = 6

(***************************************************************************)
(* C3: when the last WithMiddlewareChain call was given a non-empty chain, *)
(* the stage sequence is exactly that chain: no default stage, no effect   *)
(* of the Without* flags, no prepend or append stage, whatever the order   *)
(* of the options; every request reaches the handler through it.           *)
(***************************************************************************)
C3_OverrideVerbatim ==
    (Built /\ OverrideInEffect(router.opts))
    => /\ router.chain = LastChainArg(router.opts)
       /\ router.mux.stages = NonNil(LastChainArg(router.opts))
       /\ router.pc = "served"
          => /\ router.x.trace = OnionTrace(StageLabels(LastChainArg(router.opts)))
             /\ router.x.logs = <<>>
             /\ router.x.w.code = router.apiHandle.code

\* an override followed by a prepend option and a configuration that would
\* otherwise build a CORS stage, on a preflight request
C3_Witness ==
    /\ router.pc = "served"
    /\ Len(router.opts) = 3
    /\ router.opts[1] = WithMiddlewareChain(<<MwA, MwB>>)
    /\ router.opts[2].kind = "WithMiddlewares"
    /\ router.opts[3] = WithConfig(ConfigA)
    /\ router.req.method = MethodOptions

(***************************************************************************)
(* C4: the default stages are the subsequence of validation, CORS,         *)
(* timeout, logging (in this order) whose condition holds: validation iff  *)
(* enabled and a schema is set, CORS iff enabled and an origin is          *)
(* configured, timeout iff enabled and the duration is positive, logging   *)
(* iff enabled and the logger is non-nil; without a schema no request is   *)
(* rejected by validation.                                                 *)
(***************************************************************************)
DefaultCondition(o, kind) ==
    CASE kind = "oapi" -> o.enableOpenAPI /\ o.swagger = "doc"
      [] kind = "cors" -> o.enableCORS /\ Len(o.config.CORS.Origins) >= 1
      [] kind = "timeout" -> o.enableTimeout /\ o.config.Timeout > 0
      [] kind = "logging" -> o.enableLogging /\ o.logger # "nil"

KindsOf(chain) == [i \in 1..Len(chain) |-> chain[i].kind]

C4_DefaultStages ==
    (Built /\ Len(router.settings.override) = 0)
    => /\ KindsOf(router.chain) =
             KindsOf(router.settings.prepend)
             \o SelectSeq(<<"oapi", "cors", "timeout", "logging">>,
                          LAMBDA k : DefaultCondition(router.settings, k))
             \o KindsOf(router.settings.append)
       /\ (router.pc = "served" /\ router.settings.swagger = "nil"
              /\ ~TerminatedByStage(router.chain, router.req))
          => router.x.calls = 1

\* all four default stages between a prepend and an append stage
C4_Witness ==
    /\ Built
    /\ KindsOf(router.chain) = <<"rec", "oapi", "cors", "timeout", "logging", "rec">>

\* validation enabled without a schema: an invalid request reaches the handler
C4_WitnessNoSchema ==
    /\ router.pc = "served"
    /\ router.settings.enableOpenAPI /\ router.settings.swagger = "nil"
    /\ ~router.req.valid
    /\ router.x.calls = 1

(***************************************************************************)
(* C5: New with a nil handler panics for every option list, before any     *)
(* option is applied or any stage is built; a mux that New returned always *)
(* serves a non-nil handler.                                               *)
(***************************************************************************)
C5_NilHandlerPanics ==
    /\ (router.pc # "idle" /\ router.apiHandle = NilHandler)
       => /\ router.pc = "panicked"
          /\ router.applied = 0
          /\ router.settings = NoSettings
          /\ router.chain = <<>>
          /\ router.mux = NoMux
    /\ Built => router.mux.h # NilHandler

\* New(nil, opts...) on a list of three options that would build stages
C5_Witness ==
    /\ router.pc = "panicked"
    /\ Len(router.opts) = 3
    /\ router.opts[1] = WithMiddlewares(<<MwA>>)
    /\ router.opts[2] = WithConfig(ConfigA)

(***************************************************************************)
(* Vocabulary of the CORS properties                                       *)
(***************************************************************************)
OriginOf(r) == IF "Origin" \in DOMAIN r.header THEN r.header["Origin"][1] ELSE ""

\* O is allowed: it is one of the configured origins, or "*" is configured
OriginAllowed(origin, cfg) ==
    origin \in Range(cfg.Origins) \/ "*" \in Range(cfg.Origins)

\* the comma-joined list, for the lists of at most two entries the model uses
CommaJoined(list) ==
    CASE Len(list) = 0 -> ""
      [] Len(list) = 1 -> list[1]
      [] Len(list) = 2 -> list[1] \o "," \o list[2]

CorsExchanges == Range(cors.log)

(***************************************************************************)
(* C6: a preflight (OPTIONS) request with an allowed Origin O is answered  *)
(* by the stage: status 200, Access-Control-Allow-Origin = O (never "*"),  *)
(* Vary = Origin, Allow-Methods / Allow-Headers the comma-joined lists,    *)
(* Allow-Credentials "true" iff credentials are allowed, the handler not   *)
(* invoked; the same preflight repeated gets the same headers.             *)
(***************************************************************************)
AllowedPreflight(e) ==
    /\ e.req.method = MethodOptions
    /\ OriginOf(e.req) # ""
    /\ OriginAllowed(OriginOf(e.req), cors.cfg)

C6_PreflightAllowed ==
    /\ \A e \in CorsExchanges :
          AllowedPreflight(e)
          => LET h == e.x.w.header IN
             /\ e.x.w.code = 200
             /\ DOMAIN h = {"Access-Control-Allow-Origin", "Vary",
                            "Access-Control-Allow-Methods",
                            "Access-Control-Allow-Headers"}
                           \cup (IF cors.cfg.AllowCredentials
                                 THEN {"Access-Control-Allow-Credentials"} ELSE {})
             /\ h["Access-Control-Allow-Origin"] = <<OriginOf(e.req)>>
             /\ h["Vary"] = <<"Origin">>
             /\ h["Access-Control-Allow-Methods"] = <<CommaJoined(cors.cfg.Methods)>>
             /\ h["Access-Control-Allow-Headers"] = <<CommaJoined(cors.cfg.Headers)>>
             /\ cors.cfg.AllowCredentials
                => h["Access-Control-Allow-Credentials"] = <<"true">>
             /\ e.x.calls = 0
             /\ e.x.w.body = ""
    /\ \A i, j \in 1..Len(cors.log) :
          (AllowedPreflight(cors.log[i]) /\ cors.log[i].req = cors.log[j].req)
          => cors.log[i].x.w.header = cors.log[j].x.w.header

\* the same preflight served twice by a stage configured with "*" and
\* credentials: the origin is reflected
C6_Witness ==
    /\ Len(cors.log) = 2
    /\ cors.log[1].req = OriginRequest(MethodOptions, OriginA)
    /\ cors.log[2].req = cors.log[1].req
    /\ cors.cfg.Origins = <<"*">>
    /\ cors.cfg.AllowCredentials
    /\ cors.cfg.Methods = <<MethodGet, MethodPost>>
    /\ cors.log[2].x.w.header["Access-Control-Allow-Origin"] = <<OriginA>>

(***************************************************************************)
(* C7: a request whose Origin is present but not allowed never gets an     *)
(* Access-Control-Allow-Origin header from the stage, and unless it is an  *)
(* OPTIONS request the handler is invoked exactly once.                    *)
(***************************************************************************)
C7_DisallowedOrigin ==
    \A e \in CorsExchanges :
        (OriginOf(e.req) # "" /\ ~OriginAllowed(OriginOf(e.req), cors.cfg))
        => /\ "Access-Control-Allow-Origin" \notin DOMAIN e.x.w.header
           /\ e.req.method # MethodOptions => e.x.calls = 1

\* a GET whose Origin differs from the configured one in letter case only
C7_Witness ==
    \E e \in CorsExchanges :
        /\ e.req = OriginRequest(MethodGet, OriginUpperA)
        /\ cors.cfg.Origins = <<OriginA>>
        /\ e.x.calls = 1

(***************************************************************************)
(* C8: a request without an Origin header passes through the stage         *)
(* untouched, whatever its method: the exchange is the one the handler     *)
(* alone produces on the same writer (no header set, no status written by  *)
(* the stage, the handler invoked once with the same request).             *)
(***************************************************************************)
C8_NoOriginPassThrough ==
    \A e \in CorsExchanges :
        OriginOf(e.req) = ""
        => /\ e.x = apiServeHTTP(Teapot, e.req, [NewExchange EXCEPT !.w = cors.w0])
           /\ e.x.calls = 1
           /\ e.x.seen = <<e.req>>
           /\ e.x.w.header = cors.w0.header
           /\ e.x.w.code = Teapot.code

\* an OPTIONS request without Origin through a stage with origins configured
C8_Witness ==
    \E e \in CorsExchanges :
        /\ e.req = OriginRequest(MethodOptions, "")
        /\ cors.cfg.Origins = <<OriginA, OriginB>>
        /\ e.x.calls = 1

(***************************************************************************)
(* Vocabulary of the timeout properties                                    *)
(***************************************************************************)
\* the response the handler's writes produce on a writer of its own
RECURSIVE HandlerOwn(_, _)
HandlerOwn(plan, w) ==
    IF plan = <<>> THEN w
    ELSE LET step == Head(plan)
             w1 == CASE step.op = "header" ->
                           [w EXCEPT !.header = HeaderSet(@, step.key, step.value)]
                      [] step.op = "status" -> WriteHeader(w, step.code)
                      [] step.op = "body" -> Write(w, step.bytes)
         IN  HandlerOwn(Tail(plan), w1)

IsHandlerResponse ==
    LET own == HandlerOwn(tmo.plan, NewWriter) IN
    /\ tmo.w.code = ClientCode(own)
    /\ tmo.w.header = own.header
    /\ tmo.w.body = own.body

IsTimeoutResponse ==
    /\ tmo.w.code = 503
    /\ tmo.w.body = "Timeout"
    /\ tmo.w.header = NoHeaders

\* the real writer received exactly one response
SingleResponse ==
    /\ tmo.wcalls <= 1
    /\ tmo.pc = "returned" => tmo.wcalls = 1
    /\ tmo.pc = "waiting" => (tmo.wcalls = 0 /\ tmo.w = NewWriter)

(***************************************************************************)
(* C9 as stated: exactly one response; the handler's own when the handler  *)
(* completes before the deadline, the 503 "Timeout" when the deadline      *)
(* fires before the handler completes.                                     *)
(***************************************************************************)
C9_AsStated ==
    /\ SingleResponse
    /\ (tmo.pc = "returned" /\ tmo.first = "handler") => IsHandlerResponse
    /\ (tmo.pc = "returned" /\ tmo.first = "deadline") => IsTimeoutResponse

(***************************************************************************)
(* C9 amended: exactly one response, decided by the event the stage        *)
(* observes.  Observing the handler's completion gives the handler's own   *)
(* response unmodified; observing the deadline gives the 503 "Timeout"     *)
(* and nothing the handler writes afterwards changes it.  The stage        *)
(* observes the handler's completion when the deadline has not fired by    *)
(* then, and the deadline when the handler has not completed by then; when *)
(* both have happened before the stage looks, either one is observed.      *)
(***************************************************************************)
C9_SingleWriter ==
    /\ SingleResponse
    /\ tmo.pc = "returned"
       => /\ tmo.winner \in {"handler", "deadline"}
          /\ tmo.winner = "handler" => (tmo.hdoneAtSelect /\ IsHandlerResponse)
          /\ tmo.winner = "deadline" => (tmo.firedAtSelect /\ IsTimeoutResponse)
          /\ ~tmo.firedAtSelect => tmo.winner = "handler"
          /\ ~tmo.hdoneAtSelect => tmo.winner = "deadline"

\* the deadline won, and the handler then wrote a status and a body that
\* the timeoutWriter refused
C9_Witness ==
    /\ tmo.pc = "returned"
    /\ tmo.winner = "deadline"
    /\ tmo.plan = <<StatusOp, BodyOp>>
    /\ tmo.hdone
    /\ tmo.refused = 1
    /\ IsTimeoutResponse

\* the handler won with a response of its own
C9_WitnessHandler ==
    /\ tmo.pc = "returned"
    /\ tmo.winner = "handler"
    /\ tmo.plan = <<HeaderOp, StatusOp>>
    /\ tmo.w.code = 201

(***************************************************************************)
(* Vocabulary of the logging properties                                    *)
(***************************************************************************)
\* the request header keys the redaction list names, whatever the case
RedactedKeys(hide, header) ==
    {k \in DOMAIN header : \E i \in 1..Len(hide) : CanonicalHeaderKey(hide[i]) = k}

\* the single placeholder for a value list: its total byte length
PlaceholderFor(values) == <<"[REDACTED - " \o ToString(TotalLen(values)) \o " bytes]">>

\* no two entries of the list name the same header
DistinctNames(hide) ==
    \A i, j \in 1..Len(hide) :
        i # j => CanonicalHeaderKey(hide[i]) # CanonicalHeaderKey(hide[j])

LogEmitted == logst.pc = "served" /\ Len(logst.x.logs) = 1

(***************************************************************************)
(* C10: in the emitted log record every header the redaction list names    *)
(* (in any letter case) carries, instead of its original values, a single  *)
(* placeholder encoding the total byte length of its original values.      *)
(***************************************************************************)
C10_RedactedLength ==
    LogEmitted
    => \A k \in RedactedKeys(logst.hide, logst.req.header) :
          /\ logst.x.logs[1].Header[k] # logst.req.header[k]
          /\ logst.x.logs[1].Header[k] = PlaceholderFor(logst.req.header[k])

\* the same for redaction lists that name no header twice, where it holds
C10_RedactedLengthDistinct ==
    (LogEmitted /\ DistinctNames(logst.hide))
    => \A k \in RedactedKeys(logst.hide, logst.req.header) :
          /\ logst.x.logs[1].Header[k] # logst.req.header[k]
          /\ logst.x.logs[1].Header[k] = PlaceholderFor(logst.req.header[k])

\* a record with a header redacted through a name in another letter case
C10_Witness ==
    /\ LogEmitted
    /\ logst.hide = <<"TOKEN", "x-iD">>
    /\ logst.req.header["Accept"] = <<"text">>
    /\ "Token" \in DOMAIN logst.req.header
    /\ logst.req.header["Token"] = <<"ab", "cde">>
    /\ logst.x.logs[1].Header["Token"] = <<"[REDACTED - 5 bytes]">>

(***************************************************************************)
(* Vocabulary of the probe batch properties                                *)
(***************************************************************************)
BatchDone == info.pc = "done"

\* the probe returns an error whatever the state of its context
Fails(p) == p # NilFunc /\ ProbeReturn(p, Background) # NilErr

NonNilPositions(checks) == {i \in 1..Len(checks) : checks[i] # NilFunc}

FailingPositions(checks) == {i \in 1..Len(checks) : Fails(checks[i])}

\* the first failing probe's position in a list that has one
FirstFailing(checks) ==
    CHOOSE i \in FailingPositions(checks) : \A j \in FailingPositions(checks) : i <= j

\* the positions the loop has gone past (the running or failing one included)
Passed ==
    IF info.pc \in {"running", "done"}
    THEN {i \in 1..Len(info.checks) : i <= info.idx}
    ELSE {i \in 1..Len(info.checks) : i < info.idx}

InvokedPositions == {info.calls[k].idx : k \in 1..Len(info.calls)}

\* the three forms of a reported failure
TimedOutMsg(n, timeout) ==
    "probe " \o ToString(n) \o " timed out after " \o ToString(timeout) \o "s"
CancelledMsg(n) == "probe " \o ToString(n) \o " was cancelled"
FailedMsg(n, err) == "probe " \o ToString(n) \o " failed: " \o err.msg

IsDeadline(err) == "context deadline exceeded" \in Range(err.chain)
IsCancellation(err) == "context canceled" \in Range(err.chain)

\* the call that made the batch fail, and the error that probe returned
\* (errs: what each call of the batch returned, in call order)
FailedCall == info.calls[Len(info.calls)]
OriginalError == info.errs[Len(info.errs)]

BatchFailed == BatchDone /\ info.result # NilErr

(***************************************************************************)
(* C11: a batch over an empty list returns nil without invoking anything   *)
(* (and derives no context); otherwise the non-nil probes are invoked one  *)
(* at a time in list order, nil entries are skipped, none is invoked       *)
(* twice, and when every non-nil probe returns nil the batch returns nil   *)
(* with each non-nil probe invoked exactly once.                           *)
(***************************************************************************)
C11_SequentialSuccess ==
    /\ (BatchDone /\ Len(info.checks) = 0)
         => (info.result = NilErr /\ info.calls = <<>> /\ info.ctx = NilContext)
    /\ \A k \in 1..Len(info.calls) :
          /\ info.calls[k].probe # NilFunc
          /\ info.calls[k].probe = info.checks[info.calls[k].idx]
          /\ \A m \in 1..Len(info.calls) : k < m => info.calls[k].idx < info.calls[m].idx
    /\ info.pc \in {"loop", "running", "done"}
         => InvokedPositions = Passed \cap NonNilPositions(info.checks)
    /\ (BatchDone /\ FailingPositions(info.checks) = {})
         => /\ info.result = NilErr
            /\ InvokedPositions = NonNilPositions(info.checks)
            /\ Len(info.calls) = Cardinality(NonNilPositions(info.checks))

C11_Witness ==
    /\ BatchDone
    /\ info.entry = "runChecks"
    /\ info.checks = <<Func("ok"), NilFunc, Func("ok")>>
    /\ info.result = NilErr
    /\ Len(info.calls) = 2
    /\ info.calls[2].idx = 3

(***************************************************************************)
(* C12: fail-fast.  The batch returns an error as soon as a probe returns  *)
(* one: no probe is invoked after a failing one, a list with a failing     *)
(* probe yields an error, and the error is a single report about the first *)
(* failing probe in list order.                                            *)
(***************************************************************************)
C12_FailFast ==
    /\ \A k \in 1..Len(info.calls) :
          Fails(info.calls[k].probe)
          => /\ k = Len(info.calls)
             /\ info.pc \in {"running", "done"}
    /\ (BatchDone /\ FailingPositions(info.checks) # {})
         => LET f == FirstFailing(info.checks)
                e == OriginalError
            IN  /\ info.result # NilErr
                /\ FailedCall.idx = f
                /\ info.idx = f
                /\ info.result.msg \in { TimedOutMsg(f, info.timeout),
                                         CancelledMsg(f), FailedMsg(f, e) }
    /\ BatchFailed => FailingPositions(info.checks) # {}

C12_Witness ==
    /\ BatchDone
    /\ info.checks = <<Func("ok"), Func("boom"), Func("deadline")>>
    /\ Len(info.calls) = 2
    /\ info.result.msg = "probe 2 failed: boom"

(***************************************************************************)
(* C13: the failing probe's error is reported as "probe N timed out after  *)
(* <batch timeout>" when it is a deadline-exceeded condition, as "probe N  *)
(* was cancelled" when it is a cancellation, and as "probe N failed:       *)
(* <original error>" otherwise: exactly one of the three for every error.  *)
(***************************************************************************)
C13_Classification ==
    BatchFailed
    => LET n == FailedCall.idx
           e == OriginalError
           t == IF info.ih.probeTimeout > 0 THEN info.ih.probeTimeout
                ELSE defaultProbeTimeout
       IN  /\ e # NilErr
           /\ IsDeadline(e) => info.result.msg = TimedOutMsg(n, t)
           /\ (IsCancellation(e) /\ ~IsDeadline(e)) => info.result.msg = CancelledMsg(n)
           /\ (~IsCancellation(e) /\ ~IsDeadline(e)) => info.result.msg = FailedMsg(n, e)
           /\ Cardinality({ m \in { TimedOutMsg(n, t), CancelledMsg(n), FailedMsg(n, e) } :
                               m = info.result.msg }) = 1

C13_Witness ==
    /\ BatchFailed
    /\ info.ih.probeTimeout = 3
    /\ info.checks = <<Func("ok"), NewPingProbe("db", Func("deadline"))>>
    /\ OriginalError.msg = "db probe failed: context deadline exceeded"
    /\ info.result.msg = "probe 2 timed out after 3s"

C13_WitnessCancelled ==
    /\ BatchFailed
    /\ info.checks = <<Func("canceled")>>
    /\ info.result.msg = "probe 1 was cancelled"

(***************************************************************************)
(* C14: whichever way the failing probe's error is classified, the error   *)
(* the batch returns unwraps to the probe's original error:                *)
(* errors.Is(result, original).                                            *)
(***************************************************************************)
C14_UnwrapsToOriginal == BatchFailed => errorsIs(info.result, OriginalError)

\* the generic form, which does keep the cause
C14_Witness ==
    /\ BatchFailed
    /\ info.checks = <<Func("boom")>>
    /\ info.result.msg = "probe 1 failed: boom"
    /\ errorsIs(info.result, ErrBoom)

(***************************************************************************)
(* C15: the probe number of a reported failure is the failing probe's      *)
(* 1-based position in the caller's original list, nil entries counted,    *)
(* whether the list was passed to runChecks or configured through          *)
(* WithLivenessChecks / WithReadinessChecks.                               *)
(***************************************************************************)
C15_IndexInOriginalList ==
    (BatchFailed /\ FailingPositions(info.raw) # {})
    => LET f == FirstFailing(info.raw)
           e == OriginalError
       IN  info.result.msg \in { TimedOutMsg(f, info.timeout), CancelledMsg(f),
                                 FailedMsg(f, e) }

\* the list passed to runChecks itself: nil entries count
C15_Witness ==
    /\ BatchFailed
    /\ info.entry = "runChecks"
    /\ info.raw = <<NilFunc, Func("boom")>>
    /\ info.result.msg = "probe 2 failed: boom"

(***************************************************************************)
(* C16: one timeout for the whole batch.  Every probe a batch invokes is   *)
(* given the same derived context, whose deadline is the batch's start     *)
(* plus the configured probe timeout (2s when none is configured or the    *)
(* configured one is not positive) and does not move between probes; each  *)
(* batch derives a context of its own from its own start.                  *)
(***************************************************************************)
\* the timeout the handler's options configure
ConfiguredTimeout ==
    IF info.ih.probeTimeout > 0 THEN info.ih.probeTimeout ELSE defaultProbeTimeout

C16_OneTimeoutPerBatch ==
    (info.pc \in {"loop", "running", "done"} /\ Len(info.checks) > 0)
    => /\ info.ctx.hasDeadline
       /\ info.ctx.deadline = info.start + ConfiguredTimeout
       /\ \A k \in 1..Len(info.calls) :
             /\ info.calls[k].ctx = info.ctx.id
             /\ info.calls[k].deadline = info.start + ConfiguredTimeout
       /\ info.prevCtx # NilContext => info.ctx.id # info.prevCtx.id

\* a second batch, begun two seconds after the first, whose second probe was
\* invoked later than its first
C16_Witness ==
    /\ info.batch = 2
    /\ info.start = 2
    /\ info.ih.probeTimeout = 1
    /\ info.prevCtx.deadline = 1
    /\ Len(info.calls) = 2
    /\ info.calls[1].at < info.calls[2].at
    /\ info.calls[2].deadline = 3

(***************************************************************************)
(* Vocabulary of the option properties                                     *)
(***************************************************************************)
Served == router.pc = "served"

Applied(opt) == \E i \in 1..Len(router.opts) : router.opts[i] = opt

\* the response headers the CORS stage writes
CorsResponseHeaders ==
    { "Access-Control-Allow-Origin", "Access-Control-Allow-Methods",
      "Access-Control-Allow-Headers", "Access-Control-Allow-Credentials", "Vary" }

NoCorsHeaders(w) == DOMAIN w.header \cap CorsResponseHeaders = {}

\* the default stage each Without* option disables
Disables ==
    { <<WithoutOpenAPIValidation, "oapi">>, <<WithoutCORSMiddleware, "cors">>,
      <<WithoutTimeoutMiddleware, "timeout">>, <<WithoutLoggingMiddleware, "logging">> }

(***************************************************************************)
(* C17: a Without* option disables its default stage whatever the          *)
(* configuration and wherever it stands among the options: the built chain *)
(* has no such stage.  With CORS origins configured and                    *)
(* WithoutCORSMiddleware applied, a preflight from an allowed origin gets  *)
(* no CORS header and the handler's status.                                *)
(***************************************************************************)
C17_WithoutDisables ==
    /\ Built
         => \A d \in Disables :
               Applied(d[1]) => /\ ~HasKind(router.chain, d[2])
                                /\ ~HasKind(router.mux.stages, d[2])
    /\ ( /\ Served
         /\ Applied(WithoutCORSMiddleware)
         /\ router.req = OriginRequest(MethodOptions, OriginA) )
         => /\ NoCorsHeaders(router.x.w)
            /\ router.x.calls = 1
            /\ ClientCode(router.x.w) = router.apiHandle.code

C17_Witness ==
    /\ Served
    /\ router.opts = << WithConfigMutator(SetField("CORS", CorsA)),
                        WithoutCORSMiddleware, WithConfig(ConfigA) >>
    /\ router.settings.config.CORS.Origins = <<OriginA>>
    /\ router.req = OriginRequest(MethodOptions, OriginA)
    /\ ClientCode(router.x.w) = 418
    /\ NoCorsHeaders(router.x.w)

(***************************************************************************)
(* C18: WithConfig and WithConfigMutator do not lose the defaults: when no *)
(* option sets the timeout (every WithConfig leaves cfg.Timeout zero, no   *)
(* mutator assigns it) the configuration keeps the default 30s and the     *)
(* default chain has the 30s timeout stage.                                *)
(***************************************************************************)
TimeoutLeftUnset ==
    \A i \in 1..Len(router.opts) :
        LET opt == router.opts[i]
        IN  /\ opt.kind = "WithConfig" => opt.cfg.Timeout = 0
            /\ (opt.kind = "WithConfigMutator" /\ opt.mutator.kind = "set")
                 => opt.mutator.field # "Timeout"

C18_ConfigKeepsDefaults ==
    (Built /\ TimeoutLeftUnset)
    => /\ router.settings.config.Timeout = DefaultTimeout
       /\ (~Applied(WithoutTimeoutMiddleware) /\ ~OverrideInEffect(router.opts))
            => \E i \in 1..Len(router.chain) :
                  router.chain[i] = timeoutMiddleware(DefaultTimeout)

\* a mutator that assigns another field keeps the default timeout
C18_Witness ==
    /\ Built
    /\ router.opts = <<WithConfigMutator(SetField("CORS", CorsA))>>
    /\ router.settings.config.Timeout = DefaultTimeout
    /\ HasKind(router.chain, "timeout")
    /\ HasKind(router.chain, "cors")

C19_WitnessCORS ==
    /\ Served
    /\ router.opts = <<WithConfig(ConfigZero)>>
    /\ router.req = OriginRequest(MethodOptions, OriginA)
    /\ router.x.calls = 1
    /\ NoCorsHeaders(router.x.w)

(***************************************************************************)
(* C20: a probe built by NewPingProbe, NewDBPingProbe or NewMongoPingProbe *)
(* whose collaborator is nil returns a non-nil error on every invocation   *)
(* and calls nothing; with a collaborator it calls it exactly once per     *)
(* invocation with a non-nil context (the background context in place of a *)
(* nil one), returns nil iff the collaborator did, and otherwise returns   *)
(* an error that unwraps to the collaborator's.                            *)
(***************************************************************************)
C20_ProbeAdapters ==
    probe.pc = "invoked"
    => IF probe.p.fn = NilFunc
       THEN /\ probe.result # NilErr
            /\ probe.received = <<>>
            /\ probe.collaboratorCalls = 0
       ELSE /\ Len(probe.received) = 1
            /\ probe.collaboratorCalls = probe.invocations
            /\ probe.received[1] # NilContext
            /\ probe.received[1] = (IF probe.ctx = NilContext THEN Background
                                    ELSE probe.ctx)
            /\ LET theirs == FuncReturn(probe.p.fn.ret, probe.received[1])
               IN  /\ probe.result = NilErr <=> theirs = NilErr
                   /\ theirs # NilErr
                        => /\ errorsIs(probe.result, theirs)
                           /\ probe.result # theirs

\* a db probe invoked a second time, with a cancelled context
C20_Witness ==
    /\ probe.pc = "invoked"
    /\ probe.p = NewDBPingProbe("db", Func("ctx"))
    /\ probe.invocations = 2
    /\ probe.ctx.err = Canceled
    /\ probe.result.msg = "db probe failed: context canceled"
    /\ errorsIs(probe.result, Canceled)

\* a ping probe without a ping function
C20_WitnessNil ==
    /\ probe.pc = "invoked"
    /\ probe.p = NewPingProbe("cache", NilFunc)
    /\ probe.ctx = NilContext
    /\ probe.result.msg = "cache probe: ping function is nil"

(***************************************************************************)
(* Vocabulary of the logging stage properties                              *)
(***************************************************************************)
LogServed == logst.pc = "served"

QuietRequest == \E i \in 1..Len(logst.quiet) : logst.quiet[i] = logst.req.path

\* key by key and value by value
SameHeaders(a, b) ==
    /\ DOMAIN a = DOMAIN b
    /\ \A k \in DOMAIN a :
          /\ Len(a[k]) = Len(b[k])
          /\ \A i \in 1..Len(a[k]) : a[k][i] = b[k][i]

(***************************************************************************)
(* C21: the header collection the handler behind the logging stage sees is *)
(* equal, key by key and value by value, to the one that entered the       *)
(* stage; redaction shows in the logged copy only.                         *)
(***************************************************************************)
C21_DefensiveCopy ==
    LogServed
    => /\ Len(logst.x.seen) = 1
       /\ SameHeaders(logst.x.seen[1].header, logst.req.header)
       /\ logst.x.seen[1] = logst.req

C21_Witness ==
    /\ LogServed
    /\ logst.hide = <<"Token">>
    /\ "Token" \in DOMAIN logst.req.header
    /\ logst.req.header["Token"] = <<"secret">>
    /\ logst.x.seen[1].header["Token"] = <<"secret">>
    /\ logst.x.logs[1].Header["Token"] = <<"[REDACTED - 6 bytes]">>

(***************************************************************************)
(* C22: the logging stage invokes the wrapped handler exactly once; for a  *)
(* path in the quiet-path set it emits no record, otherwise exactly one    *)
(* (method, path, the redacted header copy, and the content length) before *)
(* the handler starts.  As stated, the content length is in the record     *)
(* whenever it is known (not -1); in the code, whenever it is positive.    *)
(***************************************************************************)
\* the record apart from its content length
RecordOfRequest(rec) ==
    /\ rec.Method = logst.req.method
    /\ rec.Path = logst.req.path
    /\ DOMAIN rec.Header = DOMAIN logst.req.header
    /\ \A k \in DOMAIN rec.Header :
          k \notin RedactedKeys(logst.hide, logst.req.header)
          => rec.Header[k] = logst.req.header[k]
    /\ \A k \in RedactedKeys(logst.hide, logst.req.header) :
          rec.Header[k] # logst.req.header[k]

LoggingOrder(withLength) ==
    LogServed
    => /\ logst.x.calls = 1
       /\ QuietRequest => (logst.x.logs = <<>> /\ logst.x.events = <<"handler">>)
       /\ ~QuietRequest
            => /\ Len(logst.x.logs) = 1
               /\ logst.x.events = <<"log", "handler">>
               /\ RecordOfRequest(logst.x.logs[1])
               /\ DOMAIN logst.x.logs[1] =
                     {"Method", "Path", "Header"}
                     \cup (IF withLength THEN {"ContentLength"} ELSE {})
               /\ withLength => logst.x.logs[1].ContentLength = logst.req.contentLength

C22_AsStated == LoggingOrder(LogServed /\ logst.req.contentLength >= 0)

C22_LogBeforeHandler == LoggingOrder(LogServed /\ logst.req.contentLength > 0)

C22_Witness ==
    /\ LogServed
    /\ ~QuietRequest
    /\ logst.req.contentLength = 3
    /\ logst.x.events = <<"log", "handler">>
    /\ logst.x.logs[1].ContentLength = 3

C22_WitnessQuiet ==
    /\ LogServed
    /\ QuietRequest
    /\ logst.x.logs = <<>>
    /\ logst.x.calls = 1

C23_WitnessReleased ==
    /\ BatchDone
    /\ info.result = NilErr
    /\ Len(info.calls) = 2
    /\ info.parent.err = NilErr
    /\ info.ctx.err = Canceled

(***************************************************************************)
(* C26: one batch moves Idle -> Running(i) -> Success or Failed(i): the    *)
(* running index only grows, a finished batch stays as it finished, at     *)
(* most one probe is running at any time, there are at most len(list)      *)
(* probe calls, and, every invoked probe returning, the batch finishes.    *)
(***************************************************************************)
InBatch == info.pc \in {"loop", "running"}

BatchStep ==
    /\ (info.pc = "running" /\ info'.pc = "running")
         => (info'.idx = info.idx /\ info'.calls = info.calls)
    /\ (info.pc # "running" /\ info'.pc = "running")
         => /\ info.pc = "loop"
            /\ info'.idx >= info.idx
            /\ Len(info'.calls) = Len(info.calls) + 1
            /\ \A k \in 1..Len(info.calls) : info.calls[k].idx < info'.idx
    /\ (info.pc = "done" /\ info'.batch = info.batch)
         => /\ info'.pc = "done"
            /\ info'.result = info.result
            /\ info'.calls = info.calls
    /\ (InBatch /\ info'.pc = "done")
         => \/ info'.result = NilErr /\ info'.idx = Len(info.checks) + 1
            \/ info'.result # NilErr /\ info.pc = "running" /\ info'.idx = info.idx

C26_StateMachine ==
    /\ [][BatchStep]_vars
    /\ [](Len(info.calls) <= Len(info.checks))
    /\ [](Len(info.calls) - Len(info.errs) = IF info.pc = "running" THEN 1 ELSE 0)
    /\ (InBatch ~> BatchDone)

C26_Witness ==
    /\ BatchDone
    /\ info.checks = <<NilFunc, Func("ctx"), Func("boom")>>
    /\ Len(info.calls) = 2
    /\ info.idx = 3
    /\ info.result.msg = "probe 3 failed: boom"

(***************************************************************************)
(* C29: the loop does not look at the batch context between probes: as     *)
(* long as every probe so far returned nil, every non-nil probe up to the  *)
(* loop's position was invoked, deadline passed or parent cancelled        *)
(* notwithstanding, and a batch whose probes all returned nil returns nil. *)
(***************************************************************************)
AllReturnedNil == \A k \in 1..Len(info.errs) : info.errs[k] = NilErr

C29_NoContextCheckBetweenProbes ==
    (info.pc \in {"loop", "running", "done"} /\ AllReturnedNil)
    => /\ InvokedPositions = Passed \cap NonNilPositions(info.checks)
       /\ BatchDone
            => /\ info.result = NilErr
               /\ InvokedPositions = NonNilPositions(info.checks)

\* the second probe was invoked after the batch deadline
C29_Witness ==
    /\ BatchDone
    /\ info.checks = <<Func("ok"), Func("ok")>>
    /\ Len(info.calls) = 2
    /\ info.calls[2].at > info.calls[2].deadline
    /\ info.result = NilErr

\* the second probe was invoked after the request's context was cancelled
C29_WitnessCancelled ==
    /\ info.pc = "running"
    /\ info.checks = <<Func("ok"), Func("ok")>>
    /\ Len(info.calls) = 2
    /\ Len(info.errs) = 1
    /\ info.parent.err = Canceled
    /\ info.calls[2].at = info.calls[1].at

(***************************************************************************)
(* C30: the classification looks at the returned error only.  An error     *)
(* whose chain has deadline-exceeded is reported as timed out after the    *)
(* batch timeout, the batch's own deadline reached or not, also when the   *)
(* chain has cancellation too; an error with neither is reported as        *)
(* failed, the batch's deadline passed or not.                             *)
(***************************************************************************)
C30_ClassifiedByErrorOnly ==
    BatchFailed
    => /\ IsDeadline(OriginalError)
            => info.result.msg = TimedOutMsg(FailedCall.idx, ConfiguredTimeout)
       /\ (~IsDeadline(OriginalError) /\ ~IsCancellation(OriginalError))
            => info.result.msg = FailedMsg(FailedCall.idx, OriginalError)

\* an error with both conditions in its chain, well before the deadline
C30_Witness ==
    /\ BatchFailed
    /\ info.checks = <<Func("both")>>
    /\ info.now < info.start + ConfiguredTimeout
    /\ info.parent.err = NilErr
    /\ IsCancellation(OriginalError)
    /\ info.result.msg = "probe 1 timed out after 2s"

\* an error NewPingProbe wrapped, before the deadline
C30_WitnessWrapped ==
    /\ BatchFailed
    /\ info.checks = <<Func("ok"), NewPingProbe("db", Func("deadline"))>>
    /\ info.now = info.start
    /\ OriginalError.msg = "db probe failed: context deadline exceeded"
    /\ info.result.msg = "probe 2 timed out after 1s"

(***************************************************************************)
(* C28: a stage with at least one origin configured answers an OPTIONS     *)
(* request whose Origin matches none of them itself: status 200,           *)
(* Access-Control-Allow-Methods and -Headers the comma-joined lists,       *)
(* -Credentials "true" iff enabled, no Access-Control-Allow-Origin, the    *)
(* Vary header left as the stage found it, no body, the handler not        *)
(* invoked.                                                                *)
(***************************************************************************)
DisallowedPreflight(e) ==
    /\ e.req.method = MethodOptions
    /\ OriginOf(e.req) # ""
    /\ Len(cors.cfg.Origins) > 0
    /\ ~OriginAllowed(OriginOf(e.req), cors.cfg)

C28_DisallowedPreflightTerminated ==
    \A e \in CorsExchanges :
        DisallowedPreflight(e)
        => LET h == e.x.w.header IN
           /\ e.x.w.code = StatusOK
           /\ DOMAIN h = DOMAIN cors.w0.header
                         \cup {"Access-Control-Allow-Methods",
                               "Access-Control-Allow-Headers"}
                         \cup (IF cors.cfg.AllowCredentials
                               THEN {"Access-Control-Allow-Credentials"} ELSE {})
           /\ "Access-Control-Allow-Origin" \notin DOMAIN h
           /\ \A k \in DOMAIN cors.w0.header : h[k] = cors.w0.header[k]
           /\ h["Access-Control-Allow-Methods"] = <<CommaJoined(cors.cfg.Methods)>>
           /\ h["Access-Control-Allow-Headers"] = <<CommaJoined(cors.cfg.Headers)>>
           /\ cors.cfg.AllowCredentials
              => h["Access-Control-Allow-Credentials"] = <<"true">>
           /\ e.x.calls = 0
           /\ e.x.events = <<>>
           /\ e.x.w.body = ""

\* a preflight from an origin that differs from the configured one in letter
\* case, through a stage with credentials enabled, on a fresh writer
C28_Witness ==
    \E e \in CorsExchanges :
        /\ e.req = OriginRequest(MethodOptions, OriginUpperA)
        /\ cors.cfg.Origins = <<OriginA>>
        /\ cors.cfg.AllowCredentials
        /\ cors.cfg.Methods = <<MethodGet, MethodPost>>
        /\ cors.w0 = NewWriter
        /\ e.x.w.code = StatusOK
        /\ DOMAIN e.x.w.header = {"Access-Control-Allow-Methods",
                                  "Access-Control-Allow-Headers",
                                  "Access-Control-Allow-Credentials"}
        /\ e.x.calls = 0

(***************************************************************************)
(* C27: when the last WithMiddlewareChain option of the list was given no  *)
(* middleware, the chain New builds is prepend ++ defaults ++ append of    *)
(* the settings, and chain and mux are those New builds from the list      *)
(* with every WithMiddlewareChain option taken out, an earlier non-empty   *)
(* one included.                                                           *)
(***************************************************************************)
ChainOptions(opts) == {i \in 1..Len(opts) : opts[i].kind = "WithMiddlewareChain"}

LastChainOptionEmpty(opts) ==
    /\ ChainOptions(opts) # {}
    /\ LET last == CHOOSE i \in ChainOptions(opts) : \A j \in ChainOptions(opts) : j <= i
       IN  Len(opts[last].mws) = 0

IsNotChainOption(opt) == opt.kind # "WithMiddlewareChain"

C27_EmptyOverride ==
    (router.pc = "built" /\ LastChainOptionEmpty(router.opts))
    => LET rest == SelectSeq(router.opts, IsNotChainOption)
           o == router.settings
       IN  /\ router.chain = o.prepend \o defaultMiddlewares(o) \o o.append
           /\ router.chain = New(router.apiHandle, rest).chain
           /\ router.mux = New(router.apiHandle, rest).mux

\* an empty override after a non-empty one and a prepended middleware
C27_Witness ==
    /\ router.pc = "built"
    /\ router.opts = <<WithMiddlewareChain(<<MwA, MwB>>), WithMiddlewares(<<MwA>>),
                       WithMiddlewareChain(<<>>)>>
    /\ Len(router.chain) = 3
    /\ router.chain[1] = MwA
    /\ router.chain[2] = timeoutMiddleware(DefaultTimeout)
    /\ router.chain[3].kind = "logging"

(***************************************************************************)
(* C25: building a pipeline with WithSwagger(doc) and serving requests     *)
(* through it leaves every field of the caller's document, its server      *)
(* list included, as the caller made it.                                   *)
(***************************************************************************)
SwaggerSupplied ==
    \E i \in 1..Len(router.opts) : router.opts[i] = WithSwagger("doc")

C25_SchemaUnchanged ==
    (router.pc \in {"built", "served"} /\ SwaggerSupplied)
    => router.doc = CallerDocument

\* a request served by the pipeline New(h, WithSwagger(doc)) built: the
\* caller's document has lost its servers and kept its paths
C25_Witness ==
    /\ router.pc = "served"
    /\ router.opts = <<WithSwagger("doc")>>
    /\ router.req = Request(MethodGet, "/", NoHeaders, 0, TRUE, TRUE)
    /\ router.x.calls = 1
    /\ CallerDocument.Servers # <<>>
    /\ router.doc.Servers = <<>>
    /\ router.doc.Paths = CallerDocument.Paths

(***************************************************************************)
(* C24: once New has returned, whatever the caller writes into the slices  *)
(* it passed (through WithConfig, through a WithConfigMutator, or as a     *)
(* middleware list) changes nothing in how a request is handled: every     *)
(* request gets the exchange it would get with the arrays as they were     *)
(* when New ran, and serving leaves the built chain as it was.             *)
(***************************************************************************)
AliasBuilt == alias.pc \in {"built", "served"}

C24_ImmutableAfterNew ==
    /\ AliasBuilt
        => \A r \in AliasRequests :
             AliasServed(alias.heap, alias.chain, r)
               = AliasServed(alias.heap0, alias.chain, r)
    /\ alias.pc = "served"
        => alias.x = AliasServed(alias.heap0, alias.chain, alias.req)
    /\ AliasBuilt
        => alias.chain
             = middlewareChainIn(alias.heap0,
                                 ApplyOptionsIn(CallerLists, alias.opts, defaultOptionsIn))

\* the origins array a mutator put in the Config now names another origin,
\* and a request from that origin is served as from a foreign one
C24_Witness ==
    /\ alias.pc = "served"
    /\ alias.opts = <<WithConfigMutator(SetField("CORS", CallerCORS))>>
    /\ alias.heap.origins = <<OriginOther>>
    /\ alias.req = OriginRequest(MethodGet, OriginOther)
    /\ "Access-Control-Allow-Origin" \notin DOMAIN alias.x.w.header
    /\ alias.x.calls = 1

\* the hidden-header array given through WithConfig, overwritten
C24_WitnessConfig ==
    /\ alias.pc = "served"
    /\ alias.opts = <<WithConfigIn(CallerHeap, CallerConfig)>>
    /\ alias.heap.hide = <<"accept">>
    /\ alias.req.path = "/status"
    /\ alias.x.logs = <<>>
    /\ alias.x.calls = 1

\* the prepended middleware list, overwritten
C24_WitnessList ==
    /\ alias.pc = "served"
    /\ alias.opts = <<WithMiddlewares(CallerSlice("pre"))>>
    /\ alias.lists.pre = <<MwB>>
    /\ alias.x.trace[1] = "A-before"

====
